---- MODULE Spec2Model ----
(***************************************************************************)
(* The real-time suggestion pipeline of the Email Copilot extension:       *)
(* RealTimeSuggestionEngine, RealTimeGhostRenderer and                     *)
(* RealTimeInputProcessor of src/content/contentScript.js, and the         *)
(* completion handler of src/background/background.js.                     *)
(*                                                                         *)
(* Texts are sequences of one-character strings, so that slicing,          *)
(* lower-casing and sanitising are computed as the code computes them.     *)
(* One action is one event-loop task: a handler together with every        *)
(* microtask (promise continuation) it runs to completion.                 *)
(***************************************************************************)
EXTENDS Integers, Sequences, FiniteSets, TLC

\* ------------------------------------------------------------------ bounds
\* Requests the engine may dispatch in one behaviour.
MaxRequests == 3
\* Requests dispatched in a behaviour that runs the background handler.
MaxBgRequests == 2
\* Number of clock ticks in one behaviour, and the length of a tick in ms.
MaxTicks == 4
TickMs == 100
\* Date.now() when the content script starts.
StartTime == 1000
\* RealTimeSuggestionEngine.cacheSize: 100 in the code, scaled down so that
\* the eviction at capacity happens within MaxRequests requests.
cacheSize == 2
\* Ghost spans that can exist at once.
MaxNodes == 2
\* Longest text an accepted suggestion may leave before the cursor.
MaxSurfaceLen == 15
\* The same for the renderer called on its own.
MaxRendererLen == 10
\* Requests the input processor may dispatch in one behaviour.
MaxPageRequests == 2
\* How long a behaviour of the compose page lasts, in ms after StartTime.
MaxPageMs == 450
\* How many times the user acts on the page in one behaviour.
MaxUserEvents == 4
\* provider texts are up to SuggestionCap + OverCap characters long
OverCap == 4
\* mutation records the GmailObserver of observer.js handles
MaxMutations == 4
\* injectContentScript runs, and loads and direct executions of the page
MaxInjectRuns == 3
MaxPageLoads == 2
\* tasks the EmailCopilotContent controller runs
MaxControllerSteps == 7
\* track_usage messages the background receives
MaxUsageMessages == 3

\* ------------------------------------------------------- program constants
minRequestInterval == 150
MinTriggerLength == 8
ProcessingDelay == 50
DebounceWait == 200
ManualMinLength == 3
KeyTail == 50
SuggestionCap == 300

\* ------------------------------------------------------------------ values
None == "none"

TextA      == <<"H","i"," ","t","h","e","r","e">>
TextALower == <<"h","i"," ","t","h","e","r","e">>
TextB      == <<"G","o"," ","a","h","e","a","d">>

NoContext   == <<>>
SubjContext == <<"S","u","b","j","e","c","t",":"," ","H","i">>

EngineTexts == {TextA, TextALower, TextB}
Contexts    == {NoContext, SubjContext}

\* The (text, context) pairs the engine is called with.
Inputs == {<<TextA, NoContext>>, <<TextALower, NoContext>>, <<TextB, NoContext>>,
           <<TextA, SubjContext>>, <<TextB, SubjContext>>}

\* What the provider may answer with (the text of the first candidate).
RawOk    == <<" ","o","k"," "," ","t","h","e","n","\n">>
RawYes   == <<"y","e","s">>
RawBlank == <<" "," ">>
RawLead  == <<" ","o","k","?">>
RawTexts == {RawOk, RawYes, RawBlank}

WS == {" ", "\n", "\r", "\t"}

\* --------------------------------------------------------- pure functions
ToLowerChar(c) ==
  CASE c = "H" -> "h"
    [] c = "G" -> "g"
    [] c = "S" -> "s"
    [] c = "C" -> "c"
    [] c = "R" -> "r"
    [] c = "T" -> "t"
    [] c = "E" -> "e"
    [] c = "A" -> "a"
    [] c = "L" -> "l"
    [] OTHER -> c

ToLowerCase(s) == [i \in 1..Len(s) |-> ToLowerChar(s[i])]

\* String.prototype.slice(-n)
SliceLast(s, n) == IF Len(s) <= n THEN s ELSE SubSeq(s, Len(s) - n + 1, Len(s))

\* String.prototype.slice(0, n)
SliceFirst(s, n) == IF Len(s) <= n THEN s ELSE SubSeq(s, 1, n)

\* The least and the greatest of a non-empty set of numbers.
MinOf(set) == CHOOSE x \in set : \A y \in set : x <= y
MaxOf(set) == CHOOSE x \in set : \A y \in set : y <= x

\* String.prototype.trim, its two halves: from the first character that is
\* not white space, up to the last one.
TrimStart(s) ==
  LET kept == {i \in 1..Len(s) : s[i] \notin WS} IN
  IF kept = {} THEN <<>> ELSE SubSeq(s, MinOf(kept), Len(s))

TrimEnd(s) ==
  LET kept == {i \in 1..Len(s) : s[i] \notin WS} IN
  IF kept = {} THEN <<>> ELSE SubSeq(s, 1, MaxOf(kept))

Trim(s) == TrimEnd(TrimStart(s))

\* Length of the longest prefix of s whose characters are all in set.
RunLen(s, set) ==
  LET stops == {i \in 1..Len(s) : s[i] \notin set} IN
  IF stops = {} THEN Len(s) ELSE MinOf(stops) - 1

Drop(s, n) == SubSeq(s, n + 1, Len(s))

\* replace(/\r\n/g, '\n')
RECURSIVE ReplaceCRLF(_)
ReplaceCRLF(s) ==
  LET found == {i \in 1..(Len(s) - 1) : s[i] = "\r" /\ s[i + 1] = "\n"} IN
  IF found = {} THEN s
  ELSE LET i == MinOf(found) IN
       SubSeq(s, 1, i - 1) \o <<"\n">> \o ReplaceCRLF(Drop(s, i + 1))

\* replace(/\r/g, '\n')
ReplaceCR(s) == [i \in 1..Len(s) |-> IF s[i] = "\r" THEN "\n" ELSE s[i]]

\* Every run of at least min characters of set becomes the text by.
RECURSIVE ReplaceRuns(_, _, _, _)
ReplaceRuns(s, set, min, by) ==
  LET found == {i \in 1..(Len(s) - min + 1) :
                  \A j \in i..(i + min - 1) : s[j] \in set} IN
  IF found = {} THEN s
  ELSE LET i == MinOf(found)
           n == RunLen(Drop(s, i - 1), set)
       IN SubSeq(s, 1, i - 1) \o by \o ReplaceRuns(Drop(s, i - 1 + n), set, min, by)

sanitizeText(text) ==
  IF text = <<>> THEN <<>>
  ELSE SliceFirst(
         ReplaceRuns(
           ReplaceRuns(ReplaceCR(ReplaceCRLF(Trim(text))), {"\n"}, 3, <<"\n","\n">>),
           WS, 2, <<" ">>),
         SuggestionCap)

IsPrefixCI(p, s) == Len(s) >= Len(p) /\ ToLowerCase(SubSeq(s, 1, Len(p))) = ToLowerCase(p)

CompletionPrefix == <<"C","o","m","p","l","e","t","i","o","n",":">>
ResponsePrefix   == <<"R","e","s","p","o","n","s","e",":">>

\* replace(/^(Completion:|Response:)/i, '')
StripEcho(s) ==
  IF IsPrefixCI(CompletionPrefix, s) THEN Drop(s, Len(CompletionPrefix))
  ELSE IF IsPrefixCI(ResponsePrefix, s) THEN Drop(s, Len(ResponsePrefix))
  ELSE s

cleanCompletion(text) ==
  Trim(ReplaceRuns(ReplaceRuns(StripEcho(Trim(text)), {"\n"}, 1, <<" ">>), WS, 1, <<" ">>))

getCacheKey(text, context) ==
  ToLowerCase(SliceLast(text, KeyTail) \o <<"|">> \o context)


\* Result objects of getSuggestion and response objects of the background.
\* A field the JavaScript object does not have reads as empty (falsy).
Success(s) == [success |-> TRUE, suggestion |-> s, error |-> ""]
Failure(e) == [success |-> FALSE, suggestion |-> <<>>, error |-> e]
\* sendMessage resolved with no response object.
UndefinedResponse == [success |-> FALSE, suggestion |-> <<>>, error |-> ""]
\* No value (yet).
NoResult == [success |-> FALSE, suggestion |-> <<>>, error |-> "(none)"]

\* ------------------------------------------------------------------- state
VARIABLES
  now,              \* Date.now()
  cache,            \* engine.cache: a Map, as the sequence of its entries
  activeRequests,   \* engine.activeRequests: a Map key -> request number
  lastRequestTime,  \* engine.lastRequestTime
  reqs,             \* the requests dispatched so far, by request number
  returned,         \* history: input -> last success getSuggestion returned
  settings,         \* chrome.storage.sync
  ui,               \* the renderer, the input processor and the page
  ev                \* history: what the last task did

engineVars == <<cache, activeRequests, lastRequestTime, reqs, returned>>
vars == <<now, cache, activeRequests, lastRequestTime, reqs, returned, settings, ui, ev>>

\* A Map as a function: has, set and delete.
Has(m, k) == k \in DOMAIN m
MapPut(m, k, v) == [x \in DOMAIN m \cup {k} |-> IF x = k THEN v ELSE m[x]]
MapDelete(m, k) == [x \in DOMAIN m \ {k} |-> m[x]]
EmptyMap == [x \in {} |-> 0]

\* ------------------------------------------------------------- the page
Elements == {"e1", "e2"}
NodeIds == 1..MaxNodes

\* What the user may leave before and after the caret of a compose surface.
TextDot   == <<"G","o"," ","a","h","e","a","d",".">>
UserTexts == {TextA, TextB, TextDot}
UserAfter == {<<>>}

FreeNode == [parent |-> None, text |-> <<>>]
\* A pending timer: when it is due and the text its callback is called with.
NoTimer == [on |-> FALSE, due |-> 0, text |-> <<>>]
Timer(due, text) == [on |-> TRUE, due |-> due, text |-> text]

\* The content script after construction, on a page with empty surfaces.
\* GmailObserver (observer.js) after construction, its callbacks set, and the
\* page: observedElements; trace: the callbacks it has made for each
\* element, in order; plain: the elements that are no compose element now
\* (an attribute or the size says so); outside: the elements that are not in
\* the document; mutations: the mutation records handled.
InitObserver ==
  [observedElements |-> {}, trace |-> [e \in Elements |-> <<>>],
   plain |-> {}, outside |-> Elements, mutations |-> 0]

\* EmailCopilotContent after construction, with its GhostTextRenderer
\* (ghostElement: it holds a span; ghostParent: the element the span is in,
\* None when it is in no document; isVisible; targetElement), its
\* EmailCopilotKeybinds (suggestionVisible) and the page: attached: the
\* elements that carry data-email-copilot-attached; listeners: for each
\* element the listeners on it, each an event type and the number of the
\* bound function; binds: the functions bind() has made so far; timer: the
\* debounced getSuggestion is due; inflight: get_ai_completion messages not
\* answered yet; inserted: the elements acceptSuggestion put text into;
\* steps: the tasks run.
InitController ==
  [isEnabled |-> TRUE, activeComposeElement |-> None, currentSuggestion |-> <<>>,
   suggestionVisible |-> FALSE,
   ghostElement |-> FALSE, ghostParent |-> None, isVisible |-> FALSE,
   targetElement |-> None,
   attached |-> {}, listeners |-> [e \in Elements |-> {}], binds |-> 0,
   timer |-> FALSE, inflight |-> 0, inserted |-> <<>>, steps |-> 0]

\* The Gmail tab: window.emailCopilotInjected, the setTimeout calls of
\* initializeEmailCopilot still due (timers), the EmailCopilot objects made
\* (instances), how often the page was loaded or the script run directly
\* (loads), and the runs of injectContentScript by where they stand: check
\* (at the first executeScript), file (at the second) or done.
InitInject ==
  [emailCopilotInjected |-> FALSE, timers |-> 0, instances |-> 0, loads |-> 0,
   runs |-> <<>>]

\* The usage statistics of background.js: what chrome.storage.local holds
\* under usageStats (empty: nothing stored yet), and the handleTrackUsage
\* calls by the action of their message, where they stand (get: awaiting
\* storage.get; set: awaiting storage.set; done) and the usageStats object
\* each one works on.  The counters per day are left out.
ZeroStats == [totalSuggestions |-> 0, acceptedSuggestions |-> 0, rejectedSuggestions |-> 0]

InitTracking == [usageStats |-> <<>>, handlers |-> <<>>]

InitUi ==
  [ \* RealTimeGhostRenderer
    activeGhost |-> 0, targetElement |-> None, currentSuggestion |-> <<>>,
    \* RealTimeInputProcessor
    activeElement |-> None, isProcessing |-> FALSE, lastProcessedText |-> <<>>,
    processingTimeout |-> NoTimer, debounceTimeout |-> NoTimer,
    \* the document: ghost spans, the text around the caret of each surface,
    \* document.activeElement, and the selection (none, caret, range)
    nodes |-> [n \in NodeIds |-> FreeNode],
    surface |-> [e \in Elements |-> [before |-> <<>>, after |-> <<>>]],
    focused |-> None, sel |-> "caret",
    \* how many times the user has acted on the page
    events |-> 0,
    \* the text the provider returned for the ghost now shown (empty: no
    \* ghost, or one shown from the cache)
    provided |-> <<>>,
    \* the compose surfaces the page has taken out of the document
    removed |-> {},
    \* the GmailObserver of observer.js and the page it watches
    observer |-> InitObserver,
    \* the EmailCopilotContent controller of the earlier revisions
    controller |-> InitController,
    \* the Gmail tab and the injectContentScript runs of the background
    inject |-> InitInject,
    \* the usage statistics the background keeps
    tracking |-> InitTracking ]

\* The state a handler works on: ui, the clock, what the page does when asked
\* (atGhost: the selection starts next to the ghost; insertOk: insertNode does
\* not throw), and what the handler reports (ret: its return value; shown: it
\* inserted a ghost; usage: the track_usage messages it sent; prevented: it
\* called preventDefault and stopPropagation on the event; called: the
\* renderer methods the keydown listener called).
Work(atGhost, insertOk) ==
  [activeGhost |-> ui.activeGhost, targetElement |-> ui.targetElement,
   currentSuggestion |-> ui.currentSuggestion, activeElement |-> ui.activeElement,
   isProcessing |-> ui.isProcessing, lastProcessedText |-> ui.lastProcessedText,
   processingTimeout |-> ui.processingTimeout, debounceTimeout |-> ui.debounceTimeout,
   nodes |-> ui.nodes, surface |-> ui.surface, focused |-> ui.focused, sel |-> ui.sel,
   events |-> ui.events, provided |-> ui.provided, removed |-> ui.removed,
   observer |-> ui.observer, controller |-> ui.controller, inject |-> ui.inject,
   tracking |-> ui.tracking,
   now |-> now, atGhost |-> atGhost, insertOk |-> insertOk,
   ret |-> FALSE, shown |-> FALSE, usage |-> <<>>, scheduled |-> FALSE,
   prevented |-> FALSE, called |-> <<>>]

Strip(S) ==
  [activeGhost |-> S.activeGhost, targetElement |-> S.targetElement,
   currentSuggestion |-> S.currentSuggestion, activeElement |-> S.activeElement,
   isProcessing |-> S.isProcessing, lastProcessedText |-> S.lastProcessedText,
   processingTimeout |-> S.processingTimeout, debounceTimeout |-> S.debounceTimeout,
   nodes |-> S.nodes, surface |-> S.surface, focused |-> S.focused, sel |-> S.sel,
   events |-> S.events, removed |-> S.removed, observer |-> S.observer,
   controller |-> S.controller, inject |-> S.inject, tracking |-> S.tracking,
   provided |-> IF S.activeGhost = 0 \/ S.shown THEN <<>> ELSE S.provided]

\* The ghost spans that are children of element el.
GhostNodes(S, el) == {n \in NodeIds : S.nodes[n].parent = el}

RECURSIVE ConcatGhosts(_, _)
ConcatGhosts(S, ns) ==
  IF ns = {} THEN <<>>
  ELSE LET n == CHOOSE m \in ns : \A k \in ns : m <= k
       IN S.nodes[n].text \o ConcatGhosts(S, ns \ {n})

\* element.textContent up to the caret: the ghost is inserted at the caret and
\* the caret is put after it, so its text counts as text before the cursor.
TextBeforeCursor(S, el) == S.surface[el].before \o ConcatGhosts(S, GhostNodes(S, el))

NullInfo == [ok |-> FALSE, textBeforeCursor |-> <<>>, textAfterCursor |-> <<>>]

hasTextSelection(S) == S.sel = "range"

\* null (ok false) when the selection has no range.
getTextAndCursor(S, el) ==
  IF S.sel = "none" \/ el = None THEN NullInfo
  ELSE [ok |-> TRUE, textBeforeCursor |-> TextBeforeCursor(S, el),
        textAfterCursor |-> S.surface[el].after]

\* ------------------------------------------------- RealTimeGhostRenderer
cleanup(S) ==
  [S EXCEPT !.activeGhost = 0, !.targetElement = None, !.currentSuggestion = <<>>]

hideSuggestionCollapses(S) ==
  LET g == S.activeGhost
      sel == IF S.sel = "range" /\ S.atGhost THEN "caret" ELSE S.sel
  IN IF g = 0 THEN cleanup([S EXCEPT !.sel = sel])
     ELSE cleanup([S EXCEPT !.nodes = [S.nodes EXCEPT ![g] = FreeNode], !.sel = sel])

hideSuggestion(S) ==
  LET g == S.activeGhost IN
  IF g = 0 THEN cleanup(S)
  ELSE cleanup([S EXCEPT
         !.nodes = [S.nodes EXCEPT ![g] = FreeNode],
         !.sel = IF S.nodes[g].parent # None /\ S.sel = "range" /\ S.atGhost
                 THEN "caret" ELSE S.sel])

\* document.createElement: a span that is neither in the document nor held.
NewNode(S) ==
  CHOOSE n \in NodeIds :
    /\ S.nodes[n].parent = None /\ S.activeGhost # n
    /\ \A m \in NodeIds : (S.nodes[m].parent = None /\ S.activeGhost # m) => n <= m

CanCreateNode(S) == \E n \in NodeIds : S.nodes[n].parent = None /\ S.activeGhost # n

\* showSuggestion after its argument test and its hideSuggestion call.
InsertGhost(S, element, suggestion) ==
  IF ~S.insertOk THEN [cleanup(S) EXCEPT !.ret = FALSE]
  ELSE LET n == NewNode(S) IN
       [S EXCEPT !.targetElement = element, !.currentSuggestion = suggestion,
                 !.activeGhost = n,
                 !.nodes = [S.nodes EXCEPT ![n] = [parent |-> element, text |-> suggestion]],
                 !.sel = "caret", !.ret = TRUE, !.shown = TRUE]

showSuggestionNoHide(S, element, suggestion, insertPosition) ==
  IF element = None \/ suggestion = <<>> \/ ~insertPosition.ok
  THEN [S EXCEPT !.ret = FALSE]
  ELSE InsertGhost(S, element, suggestion)

showSuggestionHidesFirst(S, element, suggestion, insertPosition) ==
  IF element = None \/ suggestion = <<>> \/ ~insertPosition.ok
  THEN [hideSuggestion(S) EXCEPT !.ret = FALSE]
  ELSE InsertGhost(hideSuggestion(S), element, suggestion)

showSuggestion(S, element, suggestion, insertPosition) ==
  IF element = None \/ suggestion = <<>> \/ ~insertPosition.ok
  THEN [S EXCEPT !.ret = FALSE]
  ELSE InsertGhost(hideSuggestion(S), element, suggestion)

hasActiveSuggestion(S) == S.activeGhost # 0

\* ------------------------------------------------ RealTimeInputProcessor
PunctuationChars == {".", "!", "?"}

\* text.trim().split(/\s+/).length
RECURSIVE CountRuns(_)
CountRuns(s) ==
  IF s = <<>> THEN 0
  ELSE LET n == RunLen(s, WS) IN
       IF n > 0 THEN 1 + CountRuns(Drop(s, n)) ELSE CountRuns(Tail(s))

WordCount(text) == 1 + CountRuns(Trim(text))

\* /[.!?]\s*$/.test(text)
EndsWithPunctuation(text) ==
  LET t == TrimEnd(text) IN t # <<>> /\ t[Len(t)] \in PunctuationChars

shouldTriggerAnyContent(S, text, textInfo) ==
  /\ ~(Len(text) < MinTriggerLength)
  /\ text # S.lastProcessedText
  /\ ~(Len(Trim(textInfo.textAfterCursor)) > 0)
  /\ ~S.isProcessing

shouldTriggerRepeats(S, text, textInfo) ==
  /\ ~(Len(text) < MinTriggerLength)
  /\ ~(Len(Trim(textInfo.textAfterCursor)) > 0)
  /\ ~EndsWithPunctuation(text)
  /\ ~S.isProcessing
  /\ ~(WordCount(text) < 2)

shouldTriggerSuggestion(S, text, textInfo) ==
  /\ ~(Len(text) < MinTriggerLength)
  /\ text # S.lastProcessedText
  /\ ~(Len(Trim(textInfo.textAfterCursor)) > 0)
  /\ ~EndsWithPunctuation(text)
  /\ ~S.isProcessing
  /\ ~(WordCount(text) < 2)

handleInputKeepsGhost(S, element) ==
  LET S1 == [S EXCEPT !.activeElement = element]
      textInfo == getTextAndCursor(S1, element)
  IN IF hasTextSelection(S1) \/ ~textInfo.ok THEN S1
     ELSE IF shouldTriggerSuggestion(S1, textInfo.textBeforeCursor, textInfo)
     THEN [S1 EXCEPT !.processingTimeout =
                        Timer(S1.now + ProcessingDelay, textInfo.textBeforeCursor),
                     !.scheduled = TRUE]
     ELSE S1

\* The input listener on element.
handleInput(S, element) ==
  LET S1 == hideSuggestion([S EXCEPT !.activeElement = element])
      textInfo == getTextAndCursor(S1, element)
  IN IF hasTextSelection(S1) \/ ~textInfo.ok THEN S1
     ELSE IF shouldTriggerSuggestion(S1, textInfo.textBeforeCursor, textInfo)
     THEN [S1 EXCEPT !.processingTimeout =
                        Timer(S1.now + ProcessingDelay, textInfo.textBeforeCursor),
                     !.scheduled = TRUE]
     ELSE S1

debouncedApiCallKeepsTimer(S, text) ==
  IF S.debounceTimeout.on THEN [S EXCEPT !.processingTimeout = NoTimer]
  ELSE [S EXCEPT !.processingTimeout = NoTimer,
                 !.debounceTimeout = Timer(S.now + DebounceWait, text)]

\* The processing timeout fires: the debounced makeApiCall is called, which
\* clears the timer of debounce and sets it anew.
debouncedApiCall(S, text) ==
  [S EXCEPT !.processingTimeout = NoTimer,
            !.debounceTimeout = Timer(S.now + DebounceWait, text)]

\* later() of debounce, before it calls func: the timer has gone off.
later(S) == [S EXCEPT !.debounceTimeout = NoTimer]

\* makeApiCall up to its await; ret tells whether it went on to getSuggestion.
makeApiCallStartAlways(S, text) ==
  [S EXCEPT !.isProcessing = TRUE, !.lastProcessedText = text, !.ret = TRUE]

makeApiCallStart(S, text) ==
  IF S.isProcessing THEN [S EXCEPT !.ret = FALSE]
  ELSE [S EXCEPT !.isProcessing = TRUE, !.lastProcessedText = text, !.ret = TRUE]

\* The staleness test of makeApiCall.
StillCurrent(S, text) ==
  LET currentTextInfo == getTextAndCursor(S, S.activeElement) IN
  /\ currentTextInfo.ok
  /\ currentTextInfo.textBeforeCursor = text
  /\ S.activeElement = S.focused

\* makeApiCall after its await settled with result.
makeApiCallResume(S, text, result) ==
  LET S1 == IF StillCurrent(S, text) /\ result.success /\ result.suggestion # <<>>
            THEN [showSuggestion(S, S.activeElement, result.suggestion,
                                 getTextAndCursor(S, S.activeElement))
                    EXCEPT !.usage = Append(@, "suggestion_shown")]
            ELSE S
  IN [S1 EXCEPT !.isProcessing = FALSE]

\* ------------------------------------- RealTimeGhostRenderer, continued
\* attached: the input processor listens on the target element.
acceptSuggestionDrops(S, attached) ==
  IF S.activeGhost = 0 \/ S.currentSuggestion = <<>> THEN [S EXCEPT !.ret = FALSE]
  ELSE [hideSuggestion(S) EXCEPT !.ret = TRUE]

acceptSuggestion(S, attached) ==
  IF S.activeGhost = 0 \/ S.currentSuggestion = <<>> THEN [S EXCEPT !.ret = FALSE]
  ELSE LET g == S.activeGhost
           parent == S.nodes[g].parent
       IN IF parent = None THEN [hideSuggestion(S) EXCEPT !.ret = FALSE]
          ELSE LET S1 == [S EXCEPT
                            !.surface[parent].before = @ \o S.currentSuggestion,
                            !.nodes = [S.nodes EXCEPT ![g] = FreeNode],
                            !.sel = "caret"]
                   S2 == IF attached /\ S1.targetElement # None
                         THEN handleInput(S1, S1.targetElement) ELSE S1
               IN [cleanup(S2) EXCEPT !.ret = TRUE]

\* The keydown listener, but for Ctrl+Space.
handleKeyDown(S, key) ==
  CASE key = "Tab" /\ hasActiveSuggestion(S) ->
         [acceptSuggestion(S, TRUE) EXCEPT !.prevented = TRUE, !.called = <<"accept">>]
    [] key = "Escape" /\ hasActiveSuggestion(S) ->
         [hideSuggestion(S) EXCEPT !.prevented = TRUE, !.called = <<"hide">>]
    [] key \in {"ArrowLeft", "Backspace"} -> [hideSuggestion(S) EXCEPT !.called = <<"hide">>]
    [] OTHER -> S


\* op: the task; req: the request it was about; ret: what the call returned
\* or the promise settled with; sent: it called sendMessage (or fetch);
\* prior: returned[text, context] before the call; keysBefore: the keys of
\* the cache before the task.
\* shown: it inserted a ghost; had: a ghost was in the document before it;
\* el: the surface the request was issued on (the processor's activeElement
\* when makeApiCall called getSuggestion); live: the text before the
\* cursor of that surface when the result came; focus: document.activeElement
\* then; busy: a request of the processor was in flight when the task began;
\* sel: the selection when the task began; scheduled: handleInput set its
\* timer; pos: showSuggestion was given an insert position; last:
\* lastProcessedText when the task began; after: the text after the cursor;
\* pressed: the key of a keydown event; raw: the provider's text of the ghost
\* that was shown when the task began; held: the renderer held a ghost then;
\* usage: the actions of the track_usage messages the task sent;
\* suggestion: the renderer's currentSuggestion when the task began;
\* prevented, called: what the keydown listener did with the event;
\* cancelled, resp: whether the request of a response was cancelled, and the
\* response; stored: a getSuggestion call changed the cache;
\* args, at: the arguments and the time of the last call of a debounced
\* function; prev: the time of the call before it, 0 when func has run since
\* or there was none; runs: how often func has run since the last call;
\* count: how many handlers an event on an element called;
\* event: a keydown event given to the keybind managers; visible: their
\* suggestionVisible; manager, inline: the callbacks that handleKeyEvent of
\* keybinds.js and of the content script's own EmailCopilotKeybinds called.
NoEv == [op |-> "init", req |-> 0, text |-> <<>>, context |-> <<>>, key |-> <<>>,
         ret |-> NoResult, sent |-> FALSE, prior |-> NoResult,
         flag |-> FALSE, keysBefore |-> <<>>,
         shown |-> FALSE, had |-> FALSE, el |-> None, live |-> <<>>, focus |-> None,
         sel |-> "caret", scheduled |-> FALSE, pos |-> FALSE,
         last |-> <<>>, after |-> <<>>, pressed |-> "", raw |-> <<>>,
         held |-> FALSE, usage |-> <<>>, suggestion |-> <<>>,
         prevented |-> FALSE, called |-> <<>>,
         cancelled |-> FALSE, resp |-> UndefinedResponse, stored |-> FALSE,
         args |-> <<>>, at |-> 0, prev |-> 0, runs |-> 0, count |-> 0,
         event |-> [key |-> <<>>, ctrlKey |-> FALSE, altKey |-> FALSE,
                    shiftKey |-> FALSE, metaKey |-> FALSE],
         visible |-> FALSE, manager |-> <<>>, inline |-> <<>>,
         busy |-> FALSE]

DefaultSettings == [enabled |-> TRUE, apiKey |-> FALSE, aiProvider |-> "gemini"]

Init ==
  /\ now = StartTime
  /\ cache = <<>>
  /\ activeRequests = EmptyMap
  /\ lastRequestTime = 0
  /\ reqs = <<>>
  /\ returned = EmptyMap
  /\ settings = DefaultSettings
  /\ ui = InitUi
  /\ ev = NoEv

\* ---------------------------------------------- RealTimeSuggestionEngine
InCache(key) == \E i \in 1..Len(cache) : cache[i].key = key
CacheGet(key) == cache[CHOOSE i \in 1..Len(cache) : cache[i].key = key].result
CacheKeys == {cache[i].key : i \in 1..Len(cache)}

\* Map.prototype.set: an existing key keeps its place in the iteration order.
MapSet(m, key, result) ==
  IF \E i \in 1..Len(m) : m[i].key = key
  THEN [i \in 1..Len(m) |->
          IF m[i].key = key THEN [key |-> key, result |-> result] ELSE m[i]]
  ELSE Append(m, [key |-> key, result |-> result])

\* The key addToCache deletes (cache.keys().next().value), <<>> when none.
EvictedKey(c) == IF Len(c) >= cacheSize /\ c # <<>> THEN c[1].key ELSE <<>>

addToCacheEvictNewest(c, key, result) ==
  MapSet(IF Len(c) >= cacheSize /\ c # <<>> THEN SubSeq(c, 1, Len(c) - 1) ELSE c,
         key, result)

addToCache(c, key, result) ==
  MapSet(IF Len(c) >= cacheSize /\ c # <<>> THEN Tail(c) ELSE c, key, result)

\* The throttle test of getSuggestion.
RateLimited == now - lastRequestTime < minRequestInterval

NewRequest(text, context, key, caller) ==
  [text |-> text, context |-> context, key |-> key, caller |-> caller,
   cancelled |-> FALSE,      \* the closure variable of makeApiRequest
   superseded |-> FALSE,     \* history: a later request for its key was sent
   stage |-> "msg",          \* msg, fetch, reply, done: where the message is
   resp |-> UndefinedResponse, \* what sendResponse was called with
   fetches |-> 0,            \* fetch calls the background made for it
   responses |-> 0,          \* sendResponse calls the background made for it
   promise |-> "pending"]    \* pending, fulfilled, hung (never settles)

\* A request whose sendMessage has settled: nothing refers to its text, key
\* or response any more; its closure variable and its promise remain.
Settled(r, promise) ==
  [text |-> <<>>, context |-> <<>>, key |-> <<>>, caller |-> r.caller,
   cancelled |-> r.cancelled, superseded |-> r.superseded, stage |-> "done", resp |-> UndefinedResponse,
   fetches |-> r.fetches, responses |-> r.responses, promise |-> promise]

\* getSuggestion returning from the cache.
CacheHitReturn(text, context) ==
  /\ returned' = MapPut(returned, <<text, context>>,
                        CacheGet(getCacheKey(text, context)))
  /\ UNCHANGED <<cache, activeRequests, lastRequestTime, reqs>>

RateLimitedReturnStamps ==
  /\ lastRequestTime' = now
  /\ UNCHANGED <<cache, activeRequests, reqs, returned>>

\* getSuggestion returning the rate-limited failure.
RateLimitedReturn == UNCHANGED <<cache, activeRequests, lastRequestTime, reqs, returned>>

\* getSuggestion past the throttle: cancel the request in flight for the key,
\* stamp lastRequestTime, and makeApiRequest up to its sendMessage.
Dispatch(text, context, caller) ==
  LET key == getCacheKey(text, context)
      old == IF Has(activeRequests, key) THEN activeRequests[key] ELSE 0
      marked == [j \in 1..Len(reqs) |->
                   [reqs[j] EXCEPT
                      !.cancelled = (reqs[j].cancelled \/ j = old),
                      !.superseded = (reqs[j].superseded
                                        \/ (reqs[j].stage # "done" /\ reqs[j].key = key))]]
  IN /\ Len(reqs) < MaxRequests
     /\ lastRequestTime' = now
     /\ reqs' = Append(marked, NewRequest(text, context, key, caller))
     /\ activeRequests' = MapPut(activeRequests, key, Len(reqs) + 1)
     /\ UNCHANGED <<cache, returned>>

\* How a getSuggestion call proceeds: "hit", "limited" or "dispatch".
Outcome(text, context) ==
  IF InCache(getCacheKey(text, context)) THEN "hit"
  ELSE IF RateLimited THEN "limited"
  ELSE "dispatch"

\* What getSuggestion returns without waiting (NoResult when it dispatches).
ImmediateResult(text, context) ==
  CASE Outcome(text, context) = "hit" -> CacheGet(getCacheKey(text, context))
    [] Outcome(text, context) = "limited" -> Failure("Rate limited")
    [] OTHER -> NoResult

\* getSuggestion up to its first await.
getSuggestion(text, context, caller) ==
  CASE Outcome(text, context) = "hit" -> CacheHitReturn(text, context)
    [] Outcome(text, context) = "limited" -> RateLimitedReturn
    [] OTHER -> Dispatch(text, context, caller)

\* What the promise of makeApiRequest settles with in the .then callback, as
\* getSuggestion sees it (a rejection is caught there and becomes a failure).
ThenResult(r, resp) ==
  IF r.cancelled THEN Failure("Request cancelled")
  ELSE IF resp.success
       THEN LET s == sanitizeText(resp.suggestion) IN
            IF s # <<>> THEN Success(s) ELSE Failure("Empty suggestion")
  ELSE Failure(IF resp.error # "" THEN resp.error ELSE "API request failed")

CacheableAlways(result) == TRUE

\* The test of getSuggestion before addToCache.
Cacheable(result) == result.success /\ result.suggestion # <<>>

\* The state after sendMessage resolved with resp for request i: the .then
\* callback of makeApiRequest and the rest of getSuggestion.
ResponseEffects(i, resp) ==
  LET r == reqs[i]
      res == ThenResult(r, resp)
      cached == Cacheable(res)
      gone == IF cached THEN EvictedKey(cache) ELSE <<>>
  IN /\ activeRequests' = MapDelete(activeRequests, r.key)
     /\ reqs' = [reqs EXCEPT ![i] = Settled(r, "fulfilled")]
     /\ cache' = IF cached THEN addToCache(cache, r.key, res) ELSE cache
     /\ returned' =
          IF ~cached THEN returned
          ELSE LET kept == {inp \in DOMAIN returned :
                              getCacheKey(inp[1], inp[2]) # gone}
               IN MapPut([inp \in kept |-> returned[inp]], <<r.text, r.context>>, res)
     /\ UNCHANGED lastRequestTime

\* The .catch callback of makeApiRequest: it rejects the promise, which
\* getSuggestion turns into a failure, unless the request was cancelled.
RejectPromise(r) == IF r.cancelled THEN "hung" ELSE "fulfilled"
RejectResult(r) ==
  IF r.cancelled THEN NoResult ELSE Failure("Receiving end does not exist")

\* sendMessage rejected: the .catch callback of makeApiRequest.
RejectEffects(i) ==
  LET r == reqs[i] IN
  /\ r.stage \in {"msg", "fetch"}
  /\ activeRequests' = MapDelete(activeRequests, r.key)
  /\ reqs' = [reqs EXCEPT ![i] = Settled(r, RejectPromise(r))]
  /\ UNCHANGED <<cache, lastRequestTime, returned>>

cancelAllRequests ==
  /\ reqs' = [i \in 1..Len(reqs) |->
                IF \E k \in DOMAIN activeRequests : activeRequests[k] = i
                THEN [reqs[i] EXCEPT !.cancelled = TRUE] ELSE reqs[i]]
  /\ activeRequests' = EmptyMap
  /\ UNCHANGED <<cache, lastRequestTime, returned>>

\* ------------------------------------------------ background.js, transport
\* What handleGetAICompletion answers before it calls the provider, NoResult
\* when the settings let it call getAICompletion.
ConfigReplyNone(s) == NoResult

ConfigReply(s) ==
  IF ~s.enabled THEN Failure("Extension is disabled")
  ELSE IF ~s.apiKey THEN Failure("API key not configured")
  ELSE NoResult

\* getAICompletion before any fetch: the provider is one it knows.
ProviderKnown(s) == s.aiProvider \in {"gemini", "openai"}

FetchOutcomes ==
  {[kind |-> "text", text |-> t] : t \in RawTexts}
    \cup {[kind |-> k, text |-> <<>>] : k \in {"network", "http", "timeout", "invalid"}}

\* getGeminiCompletion / getOpenAICompletion after the fetch settled, and the
\* catch of getAICompletion.
FetchReply(o) ==
  CASE o.kind = "text" -> Success(cleanCompletion(o.text))
    [] o.kind = "network" -> Failure("Failed to fetch")
    [] o.kind = "http" -> Failure("Gemini API error: HTTP 500")
    [] o.kind = "timeout" -> Failure("Request timeout - check your internet connection")
    [] OTHER -> Failure("Invalid response from Gemini API")

handleGetAICompletionGoesOn(i) ==
  LET r == reqs[i]
      early == ConfigReply(settings)
  IN /\ r.stage = "msg"
     /\ reqs' =
          IF ProviderKnown(settings)
          THEN [reqs EXCEPT ![i].stage = "fetch", ![i].fetches = r.fetches + 1,
                            ![i].resp = IF early # NoResult THEN early ELSE @,
                            ![i].responses = IF early # NoResult THEN @ + 1 ELSE @]
          ELSE [reqs EXCEPT ![i].stage = "reply", ![i].responses = @ + 1,
                            ![i].resp = Failure("Unsupported AI provider")]
     /\ UNCHANGED <<cache, activeRequests, lastRequestTime, returned>>

\* handleGetAICompletion from the storage read to its first answer or fetch.
handleGetAICompletion(i) ==
  LET r == reqs[i]
      early == ConfigReply(settings)
  IN /\ r.stage = "msg"
     /\ reqs' =
          IF early # NoResult
          THEN [reqs EXCEPT ![i].stage = "reply", ![i].resp = early,
                            ![i].responses = @ + 1]
          ELSE IF ProviderKnown(settings)
          THEN [reqs EXCEPT ![i].stage = "fetch", ![i].fetches = r.fetches + 1]
          ELSE [reqs EXCEPT ![i].stage = "reply", ![i].responses = @ + 1,
                            ![i].resp = Failure("Unsupported AI provider")]
     /\ UNCHANGED <<cache, activeRequests, lastRequestTime, returned>>

\* The fetch of request i settles with outcome o and sendResponse is called.
FetchSettles(i, o) ==
  /\ reqs[i].stage = "fetch"
  /\ reqs' = [reqs EXCEPT ![i].stage = "reply", ![i].resp = FetchReply(o),
                          ![i].responses = @ + 1]
  /\ UNCHANGED <<cache, activeRequests, lastRequestTime, returned>>

KeySeq(c) == [i \in 1..Len(c) |-> c[i].key]

Ev(op, i, ret) ==
  [NoEv EXCEPT !.op = op, !.req = i, !.ret = ret,
               !.text = IF i \in 1..Len(reqs) THEN reqs[i].text ELSE <<>>,
               !.context = IF i \in 1..Len(reqs) THEN reqs[i].context ELSE <<>>,
               !.key = IF i \in 1..Len(reqs) THEN reqs[i].key ELSE <<>>,
               !.keysBefore = KeySeq(cache)]

\* ------------------------------------------------- the engine on its own
\* A caller of the engine other than the input processor.
GetSuggestionCall(text, context) ==
    /\ getSuggestion(text, context, "direct")
    /\ ev' = [NoEv EXCEPT
                !.op = "getSuggestion", !.text = text, !.context = context,
                !.key = getCacheKey(text, context), !.keysBefore = KeySeq(cache),
                !.req = IF Outcome(text, context) = "dispatch" THEN Len(reqs) + 1 ELSE 0,
                !.ret = ImmediateResult(text, context),
                !.sent = (Len(reqs') > Len(reqs)),
                !.prior = IF Has(returned, <<text, context>>)
                          THEN returned[<<text, context>>] ELSE NoResult,
                !.flag = (Outcome(text, context) = "limited"),
                !.stored = (cache' # cache)]
    /\ UNCHANGED <<now, settings, ui>>

EngGetSuggestion == \E inp \in Inputs : GetSuggestionCall(inp[1], inp[2])

ResponseArrives(i, resp) ==
    /\ ResponseEffects(i, resp)
    /\ ev' = [Ev("response", i, ThenResult(reqs[i], resp)) EXCEPT
                !.flag = (cache' # cache), !.cancelled = reqs[i].cancelled,
                !.resp = resp]
    /\ UNCHANGED <<now, settings, ui>>

\* What sendMessage may resolve with.
Replies ==
  {Success(cleanCompletion(t)) : t \in RawTexts}
    \cup {Failure("Failed to fetch"), UndefinedResponse}

\* The engine on its own: the background is any responder.
EngResponse ==
  \E i \in 1..Len(reqs), resp \in Replies :
    reqs[i].stage = "msg" /\ ResponseArrives(i, resp)

EngReject ==
  \E i \in 1..Len(reqs) :
    /\ RejectEffects(i)
    /\ ev' = [Ev("reject", i, RejectResult(reqs[i])) EXCEPT
                !.flag = (cache' # cache), !.cancelled = reqs[i].cancelled]
    /\ UNCHANGED <<now, settings, ui>>

EngCancelAll ==
  /\ DOMAIN activeRequests # {}
  /\ cancelAllRequests
  /\ ev' = Ev("cancelAll", 0, NoResult)
  /\ UNCHANGED <<now, settings, ui>>

BgHandle ==
  \E i \in 1..Len(reqs) :
    /\ handleGetAICompletion(i)
    /\ ev' = [Ev("bgHandle", i, reqs'[i].resp) EXCEPT
                !.flag = (~settings.enabled \/ ~settings.apiKey),
                !.sent = (reqs'[i].fetches > reqs[i].fetches)]
    /\ UNCHANGED <<now, settings, ui>>

BgFetch ==
  \E i \in 1..Len(reqs), o \in FetchOutcomes :
    /\ FetchSettles(i, o)
    /\ ev' = [Ev("bgFetch", i, reqs'[i].resp) EXCEPT !.flag = (o.kind = "network")]
    /\ UNCHANGED <<now, settings, ui>>

\* The user saves other settings in the popup.
ChangeSettings ==
  /\ \E e \in BOOLEAN, k \in BOOLEAN, p \in {"gemini", "openai", "other"} :
       settings' = [enabled |-> e, apiKey |-> k, aiProvider |-> p]
  /\ settings' # settings
  /\ ev' = Ev("settings", 0, NoResult)
  /\ UNCHANGED <<now, cache, activeRequests, lastRequestTime, reqs, returned, ui>>

Tick ==
  /\ now + TickMs <= StartTime + MaxTicks * TickMs
  /\ now' = now + TickMs
  /\ ev' = Ev("tick", 0, NoResult)
  /\ UNCHANGED <<cache, activeRequests, lastRequestTime, reqs, returned, settings, ui>>

NextEngine ==
  \/ EngGetSuggestion
  \/ EngResponse
  \/ EngReject
  \/ EngCancelAll
  \/ Tick

SpecEngine == Init /\ [][NextEngine]_vars

\* ------------------------------------- the engine with background.js behind
BgGetSuggestion ==
  /\ Len(reqs) < MaxBgRequests
  /\ \E inp \in {<<TextA, NoContext>>, <<TextB, NoContext>>} :
       GetSuggestionCall(inp[1], inp[2])

BgResponse ==
  \E i \in 1..Len(reqs) :
    reqs[i].stage = "reply" /\ ResponseArrives(i, reqs[i].resp)

NextBackground ==
  \/ BgGetSuggestion
  \/ BgHandle
  \/ BgFetch
  \/ BgResponse
  \/ EngReject
  \/ EngCancelAll
  \/ ChangeSettings
  \/ Tick

SpecBackground == Init /\ [][NextBackground]_vars

\* --------------------------------------------- the renderer on its own
Suggestions == {<<>>, <<"y","e","s">>, <<"o","k"," ","t","h","e","n">>}

GhostsInDocument(S) ==
  {n \in NodeIds : S.nodes[n].parent # None /\ S.nodes[n].parent \notin S.removed}

UiEv(op, S0, S1) ==
  [NoEv EXCEPT !.op = op, !.flag = S1.ret, !.shown = S1.shown,
               !.had = (GhostsInDocument(S0) # {}),
               !.sel = S0.sel, !.scheduled = S1.scheduled,
               !.last = S0.lastProcessedText, !.held = (S0.activeGhost # 0),
               !.usage = S1.usage, !.suggestion = S0.currentSuggestion,
               !.prevented = S1.prevented, !.called = S1.called]

\* showSuggestion called with any element, suggestion and insert position.
RShow ==
  \E el \in Elements \cup {None}, sg \in Suggestions, pos \in BOOLEAN,
     insertOk \in BOOLEAN, atGhost \in BOOLEAN :
    LET S0 == Work(atGhost, insertOk)
        info == IF pos /\ el # None
                THEN [getTextAndCursor(S0, el) EXCEPT !.ok = TRUE] ELSE NullInfo
        S1 == showSuggestion(S0, el, sg, info)
    IN /\ CanCreateNode(S0)
       /\ ui' = Strip(S1)
       /\ ev' = [UiEv("show", S0, S1) EXCEPT !.text = sg, !.pos = info.ok]
       /\ UNCHANGED <<now, cache, activeRequests, lastRequestTime, reqs, returned, settings>>

RHide ==
  \E atGhost \in BOOLEAN :
    LET S0 == Work(atGhost, TRUE)
        S1 == hideSuggestion(S0)
    IN /\ ui' = Strip(S1)
       /\ ev' = UiEv("hide", S0, S1)
       /\ UNCHANGED <<now, cache, activeRequests, lastRequestTime, reqs, returned, settings>>

RAccept ==
  LET S0 == Work(FALSE, TRUE)
      S1 == acceptSuggestion(S0, TRUE)
  IN /\ \A el \in Elements :
          Len(S0.surface[el].before) + Len(S0.currentSuggestion) <= MaxRendererLen
     /\ ui' = Strip(S1)
     /\ ev' = UiEv("accept", S0, S1)
     /\ UNCHANGED <<now, cache, activeRequests, lastRequestTime, reqs, returned, settings>>

\* The page or the user takes the ghost span out of the document.
GhostRemoved ==
  \E n \in NodeIds :
    /\ ui.nodes[n].parent # None
    /\ ui' = [ui EXCEPT !.nodes = [ui.nodes EXCEPT ![n] = FreeNode]]
    /\ ev' = [NoEv EXCEPT !.op = "ghostRemoved", !.had = TRUE]
    /\ UNCHANGED <<now, cache, activeRequests, lastRequestTime, reqs, returned, settings>>

\* The user changes the selection: none, a caret or a range.
UserSelect ==
  \E sel \in {"none", "caret", "range"} :
    /\ ui.events < MaxUserEvents
    /\ sel # ui.sel
    /\ ui' = [ui EXCEPT !.sel = sel, !.events = @ + 1]
    /\ ev' = [NoEv EXCEPT !.op = "select"]
    /\ UNCHANGED <<now, cache, activeRequests, lastRequestTime, reqs, returned, settings>>

NextRenderer ==
  \/ RShow
  \/ RHide
  \/ RAccept
  \/ GhostRemoved
  \/ UserSelect

SpecRenderer == Init /\ [][NextRenderer]_vars

\* ------------------------------------- shouldTriggerSuggestion on its own
\* Texts before the cursor: leading whitespace, a body and an ending.
TriggerTexts ==
  LET pads  == {<<>>, <<" ", " ", " ", " ", " ">>}
      cores == {<<>>, <<"H","i">>, <<"a"," ","b">>, TextA, TextB,
                <<"H","e","l","l","o","w","o","r","l","d">>,
                <<"T","h","a","n","k","s"," ","f","o","r"," ","y","o","u","r",
                  " ","t","i","m","e">>}
      tails == {<<>>, <<".">>, <<"!">>, <<"?">>, <<".", " ">>, <<",">>,
                <<" ", " ", " ", " ", " ">>}
  IN {p \o c \o t : p \in pads, c \in cores, t \in tails}

\* handleInput's call of the policy, for every text and processor state.
TriggerCall ==
  \E text \in TriggerTexts, after \in {<<>>, <<"x">>},
     last \in {<<>>, TextA}, busy \in BOOLEAN :
    LET S == [Work(FALSE, TRUE) EXCEPT !.lastProcessedText = last,
                                       !.isProcessing = busy]
        textInfo == [ok |-> TRUE, textBeforeCursor |-> text, textAfterCursor |-> after]
    IN /\ ev' = [NoEv EXCEPT !.op = "shouldTrigger", !.text = text, !.after = after,
                              !.last = last, !.busy = busy,
                              !.flag = shouldTriggerSuggestion(S, text, textInfo)]
       /\ UNCHANGED <<now, cache, activeRequests, lastRequestTime, reqs, returned,
                      settings, ui>>

NextTrigger == TriggerCall

SpecTrigger == Init /\ [][NextTrigger]_vars

\* ------------------------------------------- GmailObserver of observer.js
\* The nodes of mutation records: a compose element or a container of all.
MutationNodes == Elements \cup {"container"}

Contains(node, el) == node = el \/ node = "container"

\* isComposeElement: editable with a Gmail indicator, and shouldExcludeElement
\* finds it large enough, which an element outside the document is not.
isComposeElement(O, el) == el \notin O.plain /\ el \notin O.outside

handleComposeDetectedAgain(O, element) ==
  [O EXCEPT !.observedElements = @ \cup {element},
            !.trace[element] = Append(@, "detected")]

handleComposeDetected(O, element) ==
  IF element \in O.observedElements THEN O
  ELSE [O EXCEPT !.observedElements = @ \cup {element},
                 !.trace[element] = Append(@, "detected")]

handleComposeRemoved(O, element) ==
  IF element \notin O.observedElements THEN O
  ELSE [O EXCEPT !.observedElements = @ \ {element},
                 !.trace[element] = Append(@, "removed")]

handleAttributeMutation(O, element) ==
  IF element \notin Elements THEN O
  ELSE IF isComposeElement(O, element)
  THEN IF element \notin O.observedElements
       THEN handleComposeDetected(O, element) ELSE O
  ELSE IF element \in O.observedElements
  THEN handleComposeRemoved(O, element)
  ELSE O

\* checkForComposeElements for the elements of set not yet checked.
RECURSIVE CheckEach(_, _)
CheckEach(O, set) ==
  IF set = {} THEN O
  ELSE LET el == CHOOSE e \in set : TRUE IN
       CheckEach(IF isComposeElement(O, el) THEN handleComposeDetected(O, el) ELSE O,
                 set \ {el})

\* The element itself and the descendants its selectors find.
checkForComposeElements(O, element) ==
  CheckEach(O, {el \in Elements : Contains(element, el)})

\* handleRemovedNode for the observed elements of set not yet looked at.
RECURSIVE RemoveEach(_, _, _)
RemoveEach(O, element, set) ==
  IF set = {} THEN O
  ELSE LET observedElement == CHOOSE e \in set : TRUE IN
       RemoveEach(IF observedElement \in O.outside \/ Contains(element, observedElement)
                  THEN handleComposeRemoved(O, observedElement) ELSE O,
                  element, set \ {observedElement})

handleRemovedNode(O, element) == RemoveEach(O, element, O.observedElements)

\* handleMutations for one record with one node: an added node, a removed
\* node or an attribute change.
handleMutations(O, type, node) ==
  [(CASE type = "added" -> checkForComposeElements(O, node)
      [] type = "removed" -> handleRemovedNode(O, node)
      [] OTHER -> handleAttributeMutation(O, node))
   EXCEPT !.mutations = @ + 1]

\* The page puts an element into the document or takes it out, or changes
\* what makes it a compose element.
DomChange ==
  \E el \in Elements, what \in {"outside", "plain"} :
    LET O == ui.observer
        flip(set) == IF el \in set THEN set \ {el} ELSE set \cup {el}
    IN /\ ui' = [ui EXCEPT !.observer =
                    IF what = "outside" THEN [O EXCEPT !.outside = flip(@)]
                    ELSE [O EXCEPT !.plain = flip(@)]]
       /\ ev' = [NoEv EXCEPT !.op = "dom", !.el = el]
       /\ UNCHANGED <<now, cache, activeRequests, lastRequestTime, reqs, returned,
                      settings>>

\* The MutationObserver delivers a record, whatever the page looks like by
\* then.
ObserverMutation ==
  \E type \in {"added", "removed", "attributes"}, node \in MutationNodes :
    /\ ui.observer.mutations < MaxMutations
    /\ ui' = [ui EXCEPT !.observer = handleMutations(@, type, node)]
    /\ ev' = [NoEv EXCEPT !.op = "mutation", !.pressed = type,
                          !.el = IF node \in Elements THEN node ELSE None,
                          !.flag = (ui'.observer.trace # ui.observer.trace)]
    /\ UNCHANGED <<now, cache, activeRequests, lastRequestTime, reqs, returned,
                      settings>>

NextObserver ==
  \/ DomChange
  \/ ObserverMutation

SpecObserver == Init /\ [][NextObserver]_vars

\* ------------------------------------------------- the keybind managers
\* Keydown events: Tab, Escape, the space bar, an arrow key and a letter,
\* with and without Ctrl, Alt and Shift.
KeyEvents ==
  [key : {<<"T","a","b">>, <<"E","s","c","a","p","e">>, <<" ">>,
          <<"A","r","r","o","w","L","e","f","t">>, <<"a">>},
   ctrlKey : BOOLEAN, altKey : BOOLEAN, shiftKey : BOOLEAN, metaKey : {FALSE}]

\* KeybindManager.getKeyString: the modifiers and the lower-cased key, joined
\* with '+'.
getKeyString(event) ==
  LET part(held, name) == IF held THEN name \o <<"+">> ELSE <<>> IN
  part(event.ctrlKey, <<"c","t","r","l">>) \o part(event.altKey, <<"a","l","t">>)
    \o part(event.shiftKey, <<"s","h","i","f","t">>)
    \o part(event.metaKey, <<"m","e","t","a">>) \o ToLowerCase(event.key)

\* The handlers map after setupDefaultBindings, for a manager in state K:
\* per registered key the callbacks its handler calls, its options and the
\* value of its condition.
setupDefaultBindings(K) ==
  LET tab    == <<"t","a","b">>
      escape == <<"e","s","c","a","p","e">>
      space  == <<"c","t","r","l","+","s","p","a","c","e">>
      arrows == {<<"a","r","r","o","w","l","e","f","t">>,
                 <<"a","r","r","o","w","r","i","g","h","t">>,
                 <<"a","r","r","o","w","u","p">>,
                 <<"a","r","r","o","w","d","o","w","n">>}
      reject == IF K.suggestionVisible /\ K.onRejectSuggestion
                THEN <<"reject">> ELSE <<>>
  IN [k \in {tab, escape, space} \cup arrows |->
        CASE k = tab ->
               [calls |-> IF K.suggestionVisible /\ K.onAcceptSuggestion
                          THEN <<"accept">> ELSE <<>>,
                preventDefault |-> TRUE, stopPropagation |-> TRUE,
                condition |-> K.suggestionVisible]
          [] k = escape ->
               [calls |-> reject, preventDefault |-> TRUE, stopPropagation |-> TRUE,
                condition |-> K.suggestionVisible]
          [] k = space ->
               [calls |-> IF K.onTriggerSuggestion THEN <<"trigger">> ELSE <<>>,
                preventDefault |-> TRUE, stopPropagation |-> TRUE, condition |-> TRUE]
          [] OTHER ->
               [calls |-> reject, preventDefault |-> FALSE, stopPropagation |-> TRUE,
                condition |-> K.suggestionVisible]]

\* KeybindManager.handleKeyEvent, inherited by EmailCopilotKeybinds: the
\* callbacks it calls.
handleKeyEvent(K, event) ==
  IF ~K.isEnabled THEN <<>>
  ELSE LET key == getKeyString(event)
           handlers == setupDefaultBindings(K)
       IN IF key \in DOMAIN handlers /\ handlers[key].condition
          THEN handlers[key].calls ELSE <<>>

\* handleKeyEvent of the EmailCopilotKeybinds class inside the content script.
inlineHandleKeyEvent(K, event) ==
  LET key == ToLowerCase(event.key) IN
  IF key = <<"t","a","b">> /\ K.suggestionVisible /\ K.onAcceptSuggestion
  THEN <<"accept">>
  ELSE IF key = <<"e","s","c","a","p","e">> /\ K.suggestionVisible /\ K.onRejectSuggestion
  THEN <<"reject">>
  ELSE IF event.ctrlKey /\ key = <<" ">> /\ K.onTriggerSuggestion
  THEN <<"trigger">>
  ELSE IF /\ key \in {<<"a","r","r","o","w","l","e","f","t">>,
                       <<"a","r","r","o","w","r","i","g","h","t">>,
                       <<"a","r","r","o","w","u","p">>,
                       <<"a","r","r","o","w","d","o","w","n">>}
          /\ K.suggestionVisible /\ K.onRejectSuggestion
  THEN <<"reject">>
  ELSE <<>>

\* A keydown event reaches a manager whose callbacks the content script has
\* set, a suggestion visible or not.
KeyEventCall ==
  \E event \in KeyEvents, visible \in BOOLEAN, enabled \in BOOLEAN :
    LET K == [suggestionVisible |-> visible, isEnabled |-> enabled,
              onAcceptSuggestion |-> TRUE, onRejectSuggestion |-> TRUE,
              onTriggerSuggestion |-> TRUE]
    IN /\ ev' = [NoEv EXCEPT !.op = "keyEvent", !.event = event,
                              !.visible = visible, !.flag = enabled,
                              !.manager = handleKeyEvent(K, event),
                              !.inline = inlineHandleKeyEvent(K, event)]
       /\ UNCHANGED <<now, cache, activeRequests, lastRequestTime, reqs, returned,
                      settings, ui>>

NextKeybinds == KeyEventCall

SpecKeybinds == Init /\ [][NextKeybinds]_vars

\* ---------------------------------- EmailCopilotContent, earlier revisions
EventTypes == {"input", "keydown", "focus", "blur", "click"}

\* GhostTextRenderer.hide
Ghost_hide(C) ==
  [C EXCEPT !.ghostElement = FALSE, !.ghostParent = None, !.isVisible = FALSE,
            !.targetElement = None]

\* GhostTextRenderer.show: hide() has put targetElement back to null when
\* positionGhostElement looks at it.
Ghost_show(C, targetElement, suggestion) ==
  IF targetElement = None \/ suggestion = <<>> THEN C
  ELSE LET C1 == Ghost_hide([C EXCEPT !.targetElement = targetElement])
           C2 == [C1 EXCEPT !.ghostElement = TRUE]
           C3 == IF ~C2.ghostElement \/ C2.targetElement = None THEN C2
                 ELSE [C2 EXCEPT !.ghostParent = C2.targetElement]
       IN [C3 EXCEPT !.isVisible = TRUE]

Content_showSuggestion(C, suggestion) ==
  IF C.activeComposeElement = None \/ suggestion = <<>> THEN C
  ELSE [Ghost_show([C EXCEPT !.currentSuggestion = suggestion],
                   C.activeComposeElement, suggestion)
        EXCEPT !.suggestionVisible = TRUE]

Content_hideSuggestion(C) ==
  [Ghost_hide([C EXCEPT !.currentSuggestion = <<>>]) EXCEPT !.suggestionVisible = FALSE]

\* handleInput, handleKeyDown for a key that hides, handleFocus, handleClick,
\* and handleBlur with the focus gone when its timer goes off.
Content_handleEvent(C, element, type) ==
  CASE type = "input" ->
         IF ~C.isEnabled THEN C
         ELSE [Content_hideSuggestion([C EXCEPT !.activeComposeElement = element])
               EXCEPT !.timer = TRUE]
    [] type = "keydown" ->
         IF ~C.isEnabled THEN C
         ELSE Content_hideSuggestion([C EXCEPT !.activeComposeElement = element])
    [] type = "focus" -> [C EXCEPT !.activeComposeElement = element]
    [] type = "click" ->
         Content_hideSuggestion([C EXCEPT !.activeComposeElement = element])
    [] OTHER -> Content_hideSuggestion(C)

\* The listeners of one type on an element, called one after the other.
RECURSIVE CallListeners(_, _, _, _)
CallListeners(C, element, type, n) ==
  IF n = 0 THEN C
  ELSE CallListeners(Content_handleEvent(C, element, type), element, type, n - 1)

ListenerCount(C, element, type) ==
  Cardinality({l \in C.listeners[element] : l[1] = type})

dispatchEvent(C, element, type) ==
  CallListeners(C, element, type, ListenerCount(C, element, type))

\* attachToComposeElement: five addEventListener calls, each with a function
\* bind() has just made.
attachToComposeElement(C, element) ==
  IF element \in C.attached THEN C
  ELSE [C EXCEPT !.attached = @ \cup {element},
                 !.listeners[element] = @ \cup {<<t, C.binds + 1>> : t \in EventTypes},
                 !.binds = @ + 1]

\* detachFromComposeElement: five removeEventListener calls, each with a
\* function bind() has just made, then the clean-up.
detachFromComposeElement(C, element) ==
  IF element \notin C.attached THEN C
  ELSE LET C1 == [C EXCEPT !.listeners[element] =
                               @ \ {<<t, C.binds + 1>> : t \in EventTypes},
                           !.binds = @ + 1]
           C2 == Ghost_hide(C1)
       IN [C2 EXCEPT !.attached = @ \ {element},
                     !.activeComposeElement = IF @ = element THEN None ELSE @]

\* insertTextAtCursor: the text goes in and an input event is dispatched.
Content_insertTextAtCursor(C, text) ==
  IF C.activeComposeElement = None THEN C
  ELSE dispatchEvent([C EXCEPT !.inserted = Append(@, C.activeComposeElement),
                               !.ghostParent = IF @ = C.activeComposeElement
                                               THEN None ELSE @],
                     C.activeComposeElement, "input")

Content_acceptSuggestion(C) ==
  IF C.currentSuggestion = <<>> \/ C.activeComposeElement = None THEN C
  ELSE [Content_insertTextAtCursor(Ghost_hide(C), C.currentSuggestion)
        EXCEPT !.currentSuggestion = <<>>, !.suggestionVisible = FALSE]

Content_rejectSuggestion(C) ==
  IF C.currentSuggestion = <<>> THEN C ELSE Content_hideSuggestion(C)

setEnabled(C, enabled) ==
  IF enabled THEN [C EXCEPT !.isEnabled = TRUE]
  ELSE Content_hideSuggestion([C EXCEPT !.isEnabled = FALSE])

\* getSuggestion up to its await; the tests of the text pass.
Content_getSuggestion(C) ==
  IF C.activeComposeElement = None \/ ~C.isEnabled THEN C
  ELSE [C EXCEPT !.inflight = @ + 1]

\* getSuggestion after its await.
Content_getSuggestionResume(C, response) ==
  LET C1 == [C EXCEPT !.inflight = @ - 1] IN
  IF response.success /\ response.suggestion # <<>>
  THEN Content_showSuggestion(C1, Trim(response.suggestion))
  ELSE C1

\* The keydown listener on the document: the keybind manager and the
\* callbacks setupKeyboardHandlers gave it.
Content_keydown(C, event) ==
  LET K == [suggestionVisible |-> C.suggestionVisible, isEnabled |-> TRUE,
            onAcceptSuggestion |-> TRUE, onRejectSuggestion |-> TRUE,
            onTriggerSuggestion |-> TRUE]
      calls == inlineHandleKeyEvent(K, event)
  IN CASE calls = <<"accept">> -> Content_acceptSuggestion(C)
       [] calls = <<"reject">> -> Content_rejectSuggestion(C)
       [] calls = <<"trigger">> ->
            IF C.activeComposeElement # None THEN Content_getSuggestion(C) ELSE C
       [] OTHER -> C

\* One task of the controller ran: its state and what it did.
CtlStep(op, el, type, C1, count) ==
  /\ ui.controller.steps < MaxControllerSteps
  /\ ui' = [ui EXCEPT !.controller = [C1 EXCEPT !.steps = ui.controller.steps + 1]]
  /\ ev' = [NoEv EXCEPT !.op = op, !.el = el, !.pressed = type, !.count = count,
                        !.flag = (el \in ui.controller.attached),
                        !.had = (ui.controller.currentSuggestion # <<>>),
                        !.held = ui.controller.ghostElement]
  /\ UNCHANGED <<now, cache, activeRequests, lastRequestTime, reqs, returned,
                 settings>>

\* gmailObserver.onComposeDetected
CtlAttach ==
  \E el \in Elements :
    CtlStep("attach", el, "", attachToComposeElement(ui.controller, el), 0)

\* gmailObserver.onComposeRemoved
CtlDetach ==
  \E el \in Elements :
    CtlStep("detach", el, "", detachFromComposeElement(ui.controller, el), 0)

\* The user types, presses Enter, clicks or moves the focus in an element.
CtlEvent ==
  \E el \in Elements, type \in EventTypes :
    CtlStep("event", el, type, dispatchEvent(ui.controller, el, type),
            ListenerCount(ui.controller, el, type))

\* The user presses Tab, Escape or Ctrl+Space anywhere in the document.
CtlKeydown ==
  \E key \in {<<"T","a","b">>, <<"E","s","c","a","p","e">>, <<" ">>} :
    LET event == [key |-> key, ctrlKey |-> (key = <<" ">>), altKey |-> FALSE,
                  shiftKey |-> FALSE, metaKey |-> FALSE]
    IN CtlStep("key", None, IF key = <<" ">> THEN "trigger" ELSE
                            IF Len(key) = 3 THEN "Tab" ELSE "Escape",
               Content_keydown(ui.controller, event),
               Len(Content_keydown(ui.controller, event).inserted)
                 - Len(ui.controller.inserted))

CtlSetEnabled ==
  \E enabled \in BOOLEAN :
    CtlStep("setEnabled", None, "", setEnabled(ui.controller, enabled), 0)

\* The timer of the debounced getSuggestion goes off.
CtlTimer ==
  /\ ui.controller.timer
  /\ CtlStep("timer", None, "",
             Content_getSuggestion([ui.controller EXCEPT !.timer = FALSE]), 0)

\* sendMessage resolves.
CtlResponse ==
  \E response \in Replies :
    /\ ui.controller.inflight > 0
    /\ CtlStep("answer", None, "",
               Content_getSuggestionResume(ui.controller, response), 0)

NextController ==
  \/ CtlAttach
  \/ CtlDetach
  \/ CtlEvent
  \/ CtlKeydown
  \/ CtlSetEnabled
  \/ CtlTimer
  \/ CtlResponse

SpecController == Init /\ [][NextController]_vars

\* ---------------------------------------------- injecting the content script
contentScriptUnguarded(W) ==
  [W EXCEPT !.emailCopilotInjected = TRUE, !.timers = @ + 1]

\* contentScript.js run in the page: the guard, the flag and
\* initializeEmailCopilot, which sets the timer that makes the EmailCopilot.
contentScript(W) ==
  IF W.emailCopilotInjected THEN W
  ELSE [W EXCEPT !.emailCopilotInjected = TRUE, !.timers = @ + 1]

InjectEv(op) == [NoEv EXCEPT !.op = op, !.flag = ui.inject.emailCopilotInjected]

InjectUnchanged ==
  UNCHANGED <<now, cache, activeRequests, lastRequestTime, reqs, returned, settings>>

\* tabs.onUpdated reports 'complete' for the Gmail tab and the extension is
\* enabled: injectContentScript starts.
TabUpdated ==
  /\ Len(ui.inject.runs) < MaxInjectRuns
  /\ settings.enabled
  /\ ui' = [ui EXCEPT !.inject.runs = Append(@, "check")]
  /\ ev' = InjectEv("tabUpdated")
  /\ InjectUnchanged

\* The first executeScript of a run resolves with the flag of the page.
InjectCheck ==
  \E i \in 1..Len(ui.inject.runs) :
    /\ ui.inject.runs[i] = "check"
    /\ ui' = [ui EXCEPT !.inject.runs[i] =
                 IF ui.inject.emailCopilotInjected THEN "done" ELSE "file"]
    /\ ev' = InjectEv("injectCheck")
    /\ InjectUnchanged

\* The second executeScript of a run: contentScript.js runs in the page.
InjectFile ==
  \E i \in 1..Len(ui.inject.runs) :
    /\ ui.inject.runs[i] = "file"
    /\ ui' = [ui EXCEPT !.inject = [contentScript(@) EXCEPT !.runs[i] = "done"]]
    /\ ev' = InjectEv("injectFile")
    /\ InjectUnchanged

\* The content script is run in the page once more, not by a run of
\* injectContentScript.
ContentScriptAgain ==
  /\ ui.inject.loads < MaxPageLoads
  /\ ui' = [ui EXCEPT !.inject = [contentScript(@) EXCEPT !.loads = @ + 1]]
  /\ ev' = InjectEv("contentScript")
  /\ InjectUnchanged

\* The timer of initializeEmailCopilot goes off: new EmailCopilot().
InitializeTimer ==
  /\ ui.inject.timers > 0
  /\ ui' = [ui EXCEPT !.inject.timers = @ - 1, !.inject.instances = @ + 1]
  /\ ev' = InjectEv("initialize")
  /\ InjectUnchanged

\* The tab loads the page anew: a new window, nothing of the old one left.
PageLoad ==
  /\ ui.inject.loads < MaxPageLoads
  /\ ui' = [ui EXCEPT !.inject.emailCopilotInjected = FALSE, !.inject.timers = 0,
                       !.inject.instances = 0, !.inject.loads = @ + 1]
  /\ ev' = InjectEv("pageLoad")
  /\ InjectUnchanged

NextInject ==
  \/ TabUpdated
  \/ InjectCheck
  \/ InjectFile
  \/ ContentScriptAgain
  \/ InitializeTimer
  \/ PageLoad

SpecInject == Init /\ [][NextInject]_vars

\* ------------------------------------------------- handleTrackUsage
\* The actions of the track_usage messages the content script sends.
UsageActions == {"accept", "reject", "suggestion_shown"}

\* handleTrackUsage between its two awaits: result is what storage.get
\* resolved with.
updateUsageStats(result, action) ==
  LET usageStats == IF result # <<>> THEN result[1] ELSE ZeroStats
      counted == IF action = "accept"
                 THEN [usageStats EXCEPT !.acceptedSuggestions = @ + 1]
                 ELSE IF action = "reject"
                 THEN [usageStats EXCEPT !.rejectedSuggestions = @ + 1]
                 ELSE usageStats
  IN [counted EXCEPT !.totalSuggestions = @ + 1]

UsageEv(op, i) == [NoEv EXCEPT !.op = op, !.req = i]

\* A track_usage message arrives: the listener calls handleTrackUsage, which
\* runs up to its storage.get.
TrackUsageMessage ==
  \E action \in UsageActions :
    /\ Len(ui.tracking.handlers) < MaxUsageMessages
    /\ ui' = [ui EXCEPT !.tracking.handlers =
                 Append(@, [action |-> action, stage |-> "get", usageStats |-> ZeroStats])]
    /\ ev' = UsageEv("trackUsage", Len(ui.tracking.handlers) + 1)
    /\ InjectUnchanged

\* storage.get resolves with what is stored: the handler updates its copy
\* and calls storage.set.
StorageGetResolves ==
  \E i \in 1..Len(ui.tracking.handlers) :
    /\ ui.tracking.handlers[i].stage = "get"
    /\ ui' = [ui EXCEPT !.tracking.handlers[i] =
                 [@ EXCEPT !.stage = "set",
                           !.usageStats = updateUsageStats(ui.tracking.usageStats,
                                                          ui.tracking.handlers[i].action)]]
    /\ ev' = UsageEv("storageGet", i)
    /\ InjectUnchanged

\* storage.set stores the handler's copy and resolves: the handler ends.
StorageSetResolves ==
  \E i \in 1..Len(ui.tracking.handlers) :
    /\ ui.tracking.handlers[i].stage = "set"
    /\ ui' = [ui EXCEPT !.tracking.usageStats = <<ui.tracking.handlers[i].usageStats>>,
                         !.tracking.handlers[i].stage = "done"]
    /\ ev' = UsageEv("storageSet", i)
    /\ InjectUnchanged

NextUsage ==
  \/ TrackUsageMessage
  \/ StorageGetResolves
  \/ StorageSetResolves

SpecUsage == Init /\ [][NextUsage]_vars

\* ------------------------------------------- sanitizing a provider text
\* Provider texts: a word of n letters, short or about SuggestionCap long,
\* followed by an ending with white space in it.
Filler(n) == [i \in 1..n |-> "a"]

SanitizeEndings ==
  {<<>>, <<"b">>, <<" ","b">>, <<" "," ","b">>, <<"b"," ">>, <<"\t","b","c">>,
   <<"\n","\n","\n","b">>, <<"\r","\n","b">>, <<" ","\n","b","c">>,
   <<"b","\r","c">>, <<"\n","b","\n">>}

SanitizeTexts ==
  {Filler(n) \o e :
     n \in {0, 2} \cup ((SuggestionCap - 3)..(SuggestionCap + OverCap - 4)),
     e \in SanitizeEndings}

\* sendMessage resolves with a success whose text is the provider's, as the
\* background of this extension cleaned it or as any responder gives it; the
\* .then callback of makeApiRequest makes the result getSuggestion caches and
\* makeApiCall shows.
SanitizeCall ==
  \E raw \in SanitizeTexts, cleaned \in BOOLEAN :
    LET resp == Success(IF cleaned THEN cleanCompletion(raw) ELSE raw)
        r == NewRequest(TextA, NoContext, getCacheKey(TextA, NoContext), "direct")
    IN /\ ev' = [NoEv EXCEPT !.op = "sanitize", !.raw = raw, !.flag = cleaned,
                              !.resp = resp, !.ret = ThenResult(r, resp),
                              !.stored = Cacheable(ThenResult(r, resp))]
       /\ UNCHANGED <<now, cache, activeRequests, lastRequestTime, reqs, returned,
                      settings, ui>>

NextSanitize == SanitizeCall

SpecSanitize == Init /\ [][NextSanitize]_vars

\* --------------------------------------------------------------- debounce
\* The function debounce(func, wait) returns is called with a text.
DebounceCall ==
  \E text \in UserTexts :
    /\ ui' = Strip(debouncedApiCall(Work(FALSE, TRUE), text))
    /\ ev' = [ev EXCEPT !.op = "debounced", !.text = text, !.args = text,
                        !.at = now, !.prev = IF ev.runs = 0 THEN ev.at ELSE 0,
                        !.runs = 0]
    /\ UNCHANGED <<now, cache, activeRequests, lastRequestTime, reqs, returned,
                   settings>>

\* The timer of debounce goes off, at its time or later: later() calls func
\* with the arguments it closed over.
DebounceLater ==
  /\ ui.debounceTimeout.on
  /\ now >= ui.debounceTimeout.due
  /\ ui' = Strip(later(Work(FALSE, TRUE)))
  /\ ev' = [ev EXCEPT !.op = "later", !.text = ui.debounceTimeout.text,
                      !.runs = ev.runs + 1]
  /\ UNCHANGED <<now, cache, activeRequests, lastRequestTime, reqs, returned,
                 settings>>

DebounceTick ==
  /\ now < StartTime + MaxTicks * TickMs
  /\ now' = now + TickMs
  /\ ev' = [ev EXCEPT !.op = "tick", !.text = <<>>]
  /\ UNCHANGED <<cache, activeRequests, lastRequestTime, reqs, returned, settings,
                 ui>>

NextDebounce ==
  \/ DebounceCall
  \/ DebounceLater
  \/ DebounceTick

SpecDebounce == Init /\ [][NextDebounce]_vars

\* ------------------------------------- the content script on a compose page
UiUnchangedEngine == UNCHANGED <<now, cache, activeRequests, lastRequestTime, reqs, returned, settings>>

\* What getEmailContext finds on the page, and what sendMessage may resolve
\* with there.
PageContexts == {SubjContext}
PageRaws == {RawOk, RawLead}

PageReplies ==
  {Success(cleanCompletion(t)) : t \in PageRaws} \cup {Failure("Failed to fetch")}

\* A request of the input processor is in flight.
InFlight == \E i \in 1..Len(reqs) : reqs[i].stage # "done" /\ reqs[i].caller \in Elements

\* What the task that ran makeApiCall past its await did.
ResumeEv(op, i, el, text, context, S0, S1, result) ==
  [NoEv EXCEPT !.op = op, !.req = i, !.text = text, !.context = context,
               !.key = getCacheKey(text, context), !.ret = result,
               !.shown = S1.shown, !.had = (GhostsInDocument(S0) # {}),
               !.el = el, !.live = TextBeforeCursor(S0, el),
               !.focus = S0.focused, !.flag = S1.isProcessing, !.sel = S0.sel,
               !.usage = S1.usage, !.suggestion = S0.currentSuggestion]

\* makeApiCall(text): up to the await and, when getSuggestion returns without
\* sending, past it.  The context is what getEmailContext reads off the page.
MakeApiCall(op, S, text) ==
  LET started == makeApiCallStart(S, text)
      el == S.activeElement
  IN
  IF ~started.ret
  THEN /\ ui' = Strip(started)
       /\ ev' = [NoEv EXCEPT !.op = op, !.text = text, !.el = el, !.busy = InFlight,
                             !.live = TextBeforeCursor(S, el), !.focus = S.focused,
                             !.sel = S.sel,
                             !.flag = started.isProcessing]
       /\ UNCHANGED engineVars
  ELSE \E context \in PageContexts :
         LET out == Outcome(text, context)
             result == ImmediateResult(text, context)
             S1 == IF out = "dispatch" THEN started
                   ELSE makeApiCallResume(started, text, result)
         IN /\ out = "dispatch" => Len(reqs) < MaxPageRequests
            /\ getSuggestion(text, context, el)
            /\ ui' = Strip(S1)
            /\ ev' = [ResumeEv(op, IF out = "dispatch" THEN Len(reqs) + 1 ELSE 0,
                               el, text, context, started, S1, result)
                        EXCEPT !.sent = (out = "dispatch"), !.busy = InFlight]

\* The user edits the focused surface: an input event with the text around
\* the caret as the edit left it.
UserInput ==
  \E el \in Elements, before \in UserTexts, after \in UserAfter,
     sel \in {"caret", "range"}, atGhost \in BOOLEAN :
    LET S0 == [Work(atGhost, TRUE) EXCEPT
                 !.surface[el] = [before |-> before, after |-> after], !.sel = sel,
                 !.events = @ + 1]
        S1 == handleInput(S0, el)
    IN /\ ui.events < MaxUserEvents
       /\ ui.focused = el
       /\ ui' = Strip(S1)
       /\ ev' = [UiEv("input", S0, S1) EXCEPT !.text = before, !.busy = InFlight,
                                               !.live = TextBeforeCursor(S1, el),
                                               !.flag = S1.processingTimeout.on]
       /\ UiUnchangedEngine

\* The user moves the focus to a surface or away from both.
UserFocus ==
  \E el \in Elements \cup {None} :
    /\ ui.events < MaxUserEvents
    /\ el \notin ui.removed
    /\ el # ui.focused
    /\ ui' = [ui EXCEPT !.focused = el, !.events = @ + 1]
    /\ ev' = [NoEv EXCEPT !.op = "focus"]
    /\ UiUnchangedEngine

\* A keydown on the focused surface, but for Ctrl+Space.
UserKeyDown ==
  \E el \in Elements, key \in {"Tab", "Escape", "ArrowLeft", "Backspace", "a"},
     atGhost \in BOOLEAN :
    LET S0 == [Work(atGhost, TRUE) EXCEPT !.events = @ + 1]
        S1 == handleKeyDown(S0, key)
    IN /\ ui.events < MaxUserEvents
       /\ ui.focused = el
       /\ key = "Tab" =>
            Len(S0.surface[el].before) + Len(S0.currentSuggestion) <= MaxSurfaceLen
       /\ ui' = Strip(S1)
       /\ ev' = [UiEv("keydown", S0, S1) EXCEPT
                   !.pressed = key, !.el = S0.targetElement, !.raw = S0.provided,
                   !.text = IF S0.targetElement = None THEN <<>>
                            ELSE S0.surface[S0.targetElement].before]
       /\ UiUnchangedEngine

\* The page takes a compose surface out of the document.  handleMutations
\* looks at added nodes and attribute changes only, so no code of the content
\* script runs.
SurfaceRemoved ==
  \E el \in Elements \ ui.removed :
    /\ ui' = [ui EXCEPT !.removed = @ \cup {el},
                         !.focused = IF @ = el THEN None ELSE @]
    /\ ev' = [NoEv EXCEPT !.op = "surfaceRemoved", !.el = el,
                          !.held = (ui.activeGhost # 0), !.busy = InFlight]
    /\ UiUnchangedEngine

\* Ctrl+Space on the focused surface: triggerManualSuggestion.
ManualTrigger ==
  \E el \in Elements :
    LET S0 == [Work(FALSE, TRUE) EXCEPT !.events = @ + 1]
        textInfo == getTextAndCursor(S0, S0.activeElement)
    IN /\ ui.events < MaxUserEvents
       /\ ui.focused = el
       /\ S0.activeElement # None
       /\ textInfo.ok
       /\ ~(Len(textInfo.textBeforeCursor) < ManualMinLength)
       /\ MakeApiCall("manual", [S0 EXCEPT !.lastProcessedText = <<>>],
                      textInfo.textBeforeCursor)
       /\ UNCHANGED <<now, settings>>

\* The 50 ms timer of handleInput fires.
ProcessingTimeoutFires ==
  /\ ui.processingTimeout.on
  /\ now >= ui.processingTimeout.due
  /\ ui' = Strip(debouncedApiCall(Work(FALSE, TRUE), ui.processingTimeout.text))
  /\ ev' = [NoEv EXCEPT !.op = "processingTimeout", !.text = ui.processingTimeout.text]
  /\ UiUnchangedEngine

\* The timer of debounce fires: later() calls makeApiCall.
DebounceFires ==
  /\ ui.debounceTimeout.on
  /\ now >= ui.debounceTimeout.due
  /\ MakeApiCall("makeApiCall", later(Work(FALSE, TRUE)),
                 ui.debounceTimeout.text)
  /\ UNCHANGED <<now, settings>>

\* sendMessage resolves: the .then callback, the rest of getSuggestion and the
\* rest of makeApiCall.
PageResponse ==
  \E i \in 1..Len(reqs), resp \in PageReplies, raw \in PageRaws \cup {<<>>},
     insertOk \in BOOLEAN :
    LET r == reqs[i]
        result == ThenResult(r, resp)
        S0 == Work(FALSE, insertOk)
        S1 == makeApiCallResume(S0, r.text, result)
    IN /\ r.stage = "msg" /\ r.caller \in Elements
       /\ IF resp.success THEN raw \in PageRaws /\ resp = Success(cleanCompletion(raw))
                          ELSE raw = <<>>
       /\ ResponseEffects(i, resp)
       /\ ui' = [Strip(S1) EXCEPT !.provided = IF S1.shown THEN raw ELSE @]
       /\ ev' = ResumeEv("response", i, r.caller, r.text, r.context, S0, S1, result)
       /\ UNCHANGED <<now, settings>>

\* sendMessage rejects: the .catch callback, and makeApiCall goes on unless
\* the promise of the request never settles.
PageReject ==
  \E i \in 1..Len(reqs) :
    LET r == reqs[i]
        result == RejectResult(r)
        S0 == Work(FALSE, TRUE)
        S1 == IF RejectPromise(r) = "hung" THEN S0
              ELSE makeApiCallResume(S0, r.text, result)
    IN /\ r.caller \in Elements
       /\ RejectEffects(i)
       /\ ui' = Strip(S1)
       /\ ev' = ResumeEv("reject", i, r.caller, r.text, r.context, S0, S1, result)
       /\ UNCHANGED <<now, settings>>

\* The times at which something changes by the clock alone: a timer falls
\* due, the throttle of getSuggestion opens.
Deadlines ==
  {t \in {ui.processingTimeout.due, ui.debounceTimeout.due,
          lastRequestTime + minRequestInterval} : t > now}

\* Time passes, up to the next such time.
PageTick ==
  /\ Deadlines # {}
  /\ now' = CHOOSE t \in Deadlines : \A u \in Deadlines : t <= u
  /\ now' <= StartTime + MaxPageMs
  /\ ev' = [NoEv EXCEPT !.op = "tick"]
  /\ UNCHANGED <<cache, activeRequests, lastRequestTime, reqs, returned, settings, ui>>

Next ==
  \/ UserInput
  \/ UserFocus
  \/ UserSelect
  \/ UserKeyDown
  \/ SurfaceRemoved
  \/ ManualTrigger
  \/ ProcessingTimeoutFires
  \/ DebounceFires
  \/ PageResponse
  \/ PageReject
  \/ PageTick

Spec == Init /\ [][Next]_vars

\* EmailCopilot.destroy(), which the page or the console may call on
\* window.emailCopilot: the requests in flight are cancelled and the ghost
\* is hidden; the listeners of the input processor stay.
PageDestroy ==
  LET S0 == Work(FALSE, TRUE)
      S1 == hideSuggestion(S0)
  IN /\ cancelAllRequests
     /\ ui' = Strip(S1)
     /\ ev' = [UiEv("destroy", S0, S1) EXCEPT !.busy = InFlight]
     /\ UNCHANGED <<now, settings>>

NextTeardown ==
  \/ Next
  \/ PageDestroy

\* The compose page with destroy() called at any time.
SpecTeardown == Init /\ [][NextTeardown]_vars

\* ================================================================= claims
retryAttempts == 3

\* C3 Cache round-trip: once getSuggestion(text, context) has returned a
\* success and the key has not been evicted since, the next call with the
\* same text and context returns that same result and sends nothing.
CacheRoundTrip ==
  (ev.op = "getSuggestion" /\ ev.prior # NoResult) => (ev.ret = ev.prior /\ ~ev.sent)

SupersedeByKey ==
  /\ \A i \in 1..Len(reqs) : reqs[i].superseded => reqs[i].cancelled
  /\ (ev.op = "response" /\ reqs[ev.req].superseded) => (~ev.ret.success /\ ~ev.flag)

\* C7 Rate limit: a call that misses the cache less than minRequestInterval
\* after the last dispatch returns the rate-limited failure at once, sends
\* nothing and leaves lastRequestTime, the cache and the requests unchanged.
RateLimitFrame ==
  [][(ev'.op = "getSuggestion"
        /\ ~InCache(ev'.key)
        /\ now - lastRequestTime < minRequestInterval)
      => /\ ev'.ret = Failure("Rate limited")
         /\ ~ev'.sent
         /\ UNCHANGED <<cache, activeRequests, lastRequestTime, reqs>>]_vars

RateLimitWitness ==
  ev.op = "getSuggestion" /\ ev.ret = Failure("Rate limited") /\ ev.flag
    /\ now > lastRequestTime
    /\ \E i \in 1..Len(reqs) : reqs[i].stage # "done"

\* C8 Retry termination: a getSuggestion call whose provider fails with a
\* network error settles with a failure after exactly retryAttempts fetches.
RetryExactlyThree ==
  (ev.op = "response" /\ ev.ret = Failure("Failed to fetch"))
    => reqs[ev.req].fetches = retryAttempts

\* C9 Fail fast: with the extension disabled or no API key,
\* handleGetAICompletion answers with a failure in the same task, and no
\* fetch is ever made for that message.
FailFast ==
  /\ (ev.op = "bgHandle" /\ ev.flag) =>
       /\ reqs[ev.req].stage = "reply"
       /\ ~reqs[ev.req].resp.success
       /\ reqs[ev.req].fetches = 0
       /\ ~ev.sent
  /\ \A i \in 1..Len(reqs) :
       reqs[i].resp.error \in {"Extension is disabled", "API key not configured"}
         => reqs[i].fetches = 0
  /\ (ev.op = "response"
        /\ ev.ret.error \in {"Extension is disabled", "API key not configured"})
       => reqs[ev.req].fetches = 0

FailFastWitness ==
  /\ ev.op = "response" /\ ev.ret = Failure("API key not configured")
  /\ reqs[ev.req].fetches = 0
  /\ \E j \in 1..Len(reqs) : reqs[j].fetches > 0

\* C1 Staleness guard: the result of a request that makeApiCall issued on
\* text T of a surface is rendered as a ghost only if, when the result comes,
\* the text before the cursor of that surface is T and that surface is the
\* focused element.
StalenessGuard ==
  (ev.op \in {"response", "reject", "makeApiCall", "manual"} /\ ev.shown) =>
     (ev.live = ev.text /\ ev.focus = ev.el)

\* C2 At most one ghost: after every showSuggestion, hideSuggestion and
\* acceptSuggestion call each surface holds at most one ghost node, the
\* document holds at most one, and it is the one the renderer holds:
\* showSuggestion took the one before out.
AtMostOneGhost ==
  /\ \A el \in Elements : Cardinality(GhostNodes(ui, el)) <= 1
  /\ Cardinality(GhostsInDocument(ui)) <= 1
  /\ \A n \in GhostsInDocument(ui) : ui.activeGhost = n

AtMostOneGhostWitness ==
  /\ ev.op = "show" /\ ev.shown /\ ev.had
  /\ Cardinality(GhostsInDocument(ui)) = 1

\* C6 Newest trigger wins: when the debounced makeApiCall runs with the text
\* the surface now holds while a request for an older text of that surface is
\* in flight (the newer text not in the cache, the rate-limit interval over),
\* a request for the newer text is in flight afterwards and the older one is
\* cancelled.
NewestTriggerWins ==
  (/\ ev.op = "makeApiCall" /\ ev.live = ev.text
   /\ \E i \in 1..Len(reqs) :
        reqs[i].stage = "msg" /\ reqs[i].caller = ev.el /\ reqs[i].text # ev.text
   /\ \A c \in Contexts : ~InCache(getCacheKey(ev.text, c))
   /\ now - lastRequestTime >= minRequestInterval)
    => \E j \in 1..Len(reqs) :
         /\ reqs[j].stage = "msg" /\ reqs[j].text = ev.text
         /\ \A i \in 1..Len(reqs) :
              (reqs[i].stage = "msg" /\ reqs[i].caller = ev.el /\ i # j)
                => reqs[i].cancelled

\* C10 Every call settles: once the sendMessage of a request has settled,
\* the getSuggestion promise of its caller is fulfilled with a result.
EverySettles ==
  \A i \in 1..Len(reqs) : reqs[i].stage = "done" => reqs[i].promise = "fulfilled"

\* C11 Trigger suppression on selection: an input event that arrives while
\* the selection is not collapsed schedules no request.
NoTriggerOnSelection ==
  (ev.op = "input" /\ ev.sel = "range") => ~ev.scheduled

\* C12 Trigger suppression on terminal punctuation and token count:
\* shouldTriggerSuggestion returns false for every text whose last character
\* is '.', '!' or '?' and for every text with fewer than 2
\* whitespace-delimited tokens, whatever the text after the cursor, the last
\* processed text and isProcessing are.
PunctuationAndTokens ==
  LET t == ev.text
      tokens == Cardinality({i \in 1..Len(t) :
                               t[i] \notin WS /\ (i = 1 \/ t[i-1] \in WS)})
  IN (/\ ev.op = "shouldTrigger"
      /\ \/ (t # <<>> /\ t[Len(t)] \in {".", "!", "?"})
         \/ tokens < 2)
       => ~ev.flag

\* A text of two tokens and 8 or more characters that ends with punctuation,
\* refused although every other test of the policy lets it through.
PunctuationWitness ==
  LET t == ev.text IN
  /\ ev.op = "shouldTrigger" /\ ~ev.flag
  /\ Len(t) >= MinTriggerLength /\ t[Len(t)] \in {".", "!", "?"}
  /\ \E i \in 2..Len(t)-1 : t[i] \in WS /\ t[i-1] \notin WS /\ t[i+1] \notin WS
  /\ ~ev.busy /\ ev.last # t /\ ev.after = <<>>

\* C13 Minimum length on trimmed text: shouldTriggerSuggestion returns false
\* whenever the text before the cursor, leading and trailing whitespace
\* trimmed, is shorter than the minimum of 8 characters.
MinLengthTrimmed ==
  (ev.op = "shouldTrigger" /\ Len(Trim(ev.text)) < MinTriggerLength) => ~ev.flag

\* C14 Duplicate-fire suppression: an input event whose text before the
\* cursor is the text makeApiCall last stored in lastProcessedText schedules
\* nothing, whether the request for it succeeded, failed or is still out.
DuplicateSuppressed ==
  (ev.op = "input" /\ ev.live = ev.last) => ~ev.scheduled

\* An input event repeating the processed text, with no request in flight, a
\* collapsed selection and nothing after the cursor: only the comparison with
\* lastProcessedText refuses it.
DuplicateWitness ==
  /\ ev.op = "input" /\ ev.live = ev.last /\ ev.last \in {TextA, TextB}
  /\ ~ev.busy /\ ~ui.isProcessing /\ ev.sel = "caret" /\ ~ev.scheduled

\* C15 In-flight suppression: at most one request issued by the input
\* processor is outstanding at any time, isProcessing is true while it is,
\* and a debounced makeApiCall that runs meanwhile sends nothing.
InFlightSuppression ==
  /\ Cardinality({i \in 1..Len(reqs) :
                    reqs[i].caller \in Elements /\ reqs[i].stage # "done"}) <= 1
  /\ InFlight => ui.isProcessing
  /\ (ev.op = "makeApiCall" /\ ev.busy) => (~ev.sent /\ ev.req = 0)

\* The debounced makeApiCall ran while a request was out and left it alone.
InFlightWitness ==
  /\ ev.op = "makeApiCall" /\ ev.busy /\ ~ev.sent
  /\ Cardinality({i \in 1..Len(reqs) :
                    reqs[i].caller \in Elements /\ reqs[i].stage # "done"}) = 1

\* C16 Manual trigger: triggerManualSuggestion dispatches nothing while the
\* user has a non-empty selection.
ManualRefusesSelection ==
  (ev.op = "manual" /\ ev.sel = "range") => ~ev.sent

\* C17 End-to-end accept: when a ghost shown for the provider's continuation
\* S after text T is accepted with Tab, the text before the cursor is T
\* followed by S exactly as the provider returned it.
AcceptExact ==
  (ev.op = "keydown" /\ ev.pressed = "Tab" /\ ev.flag /\ ev.raw # <<>>)
    => ui.surface[ev.el].before = ev.text \o ev.raw

IdempotentHide ==
  \A atGhost \in BOOLEAN :
    LET S == Work(atGhost, TRUE)
        H == hideSuggestion(S)
    IN /\ ui.activeGhost = 0 => Strip(H) = ui
       /\ Strip(hideSuggestion(H)) = Strip(H)
       /\ (ev.op = "hide" /\ ~ev.held) => Strip(H) = ui

\* hideSuggestion ran on a renderer that held no ghost, a range selected.
IdempotentHideWitness ==
  /\ ev.op = "hide" /\ ~ev.held /\ ~ev.had
  /\ ui.activeGhost = 0 /\ ui.sel = "range"

\* C20 show without side effects on bad input: showSuggestion called with an
\* empty suggestion or without an insert position returns false and leaves
\* the renderer, the surfaces, the selection and a ghost already shown as
\* they were.
ShowRefusesBadInput ==
  [][(ev'.op = "show" /\ (ev'.text = <<>> \/ ~ev'.pos)) =>
       (~ev'.flag /\ ui' = ui)]_vars

\* showSuggestion refused its arguments while a ghost was shown, and the
\* ghost is still there.
ShowRefusesWitness ==
  /\ ev.op = "show" /\ (ev.text = <<>> \/ ~ev.pos) /\ ~ev.flag
  /\ ev.had /\ ev.held
  /\ ui.activeGhost # 0 /\ ui.nodes[ui.activeGhost].parent # None

AcceptKeyTransition ==
  (ev.op = "keydown" /\ ev.pressed = "Tab" /\ ev.held /\ ev.had) =>
     /\ ev.flag
     /\ ui.surface[ev.el].before = ev.text \o ev.suggestion
     /\ GhostsInDocument(ui) = {} /\ ui.activeGhost = 0
     /\ ev.usage = <<"accept">>

\* C23 Reject and navigation transitions: Escape, a navigation key or
\* Backspace pressed while a suggestion is shown hides the ghost; Escape
\* sends one track_usage message with action reject, the other keys none.
RejectKeyTransition ==
  (/\ ev.op = "keydown" /\ ev.pressed \in {"Escape", "ArrowLeft", "Backspace"}
   /\ ev.held /\ ev.had) =>
     /\ GhostsInDocument(ui) = {} /\ ui.activeGhost = 0
     /\ ev.usage = IF ev.pressed = "Escape" THEN <<"reject">> ELSE <<>>

\* C24 Surface destruction: once a compose surface has been removed from the
\* document, the processor and the renderer hold no reference to it and
\* every request issued on it that is still in flight is cancelled.
SurfaceDestruction ==
  ev.op = "surfaceRemoved" =>
    /\ ui.activeElement # ev.el
    /\ ui.targetElement # ev.el
    /\ \A i \in 1..Len(reqs) :
         (reqs[i].caller = ev.el /\ reqs[i].stage = "msg") => reqs[i].cancelled

\* C25 Keys pass through when nothing is suggested: a keydown of Tab or
\* Escape is intercepted (preventDefault, stopPropagation, acceptSuggestion
\* or hideSuggestion called) only while a ghost is in the document.
KeysPassThrough ==
  (ev.op = "keydown" /\ ev.pressed \in {"Tab", "Escape"} /\ ~ev.had) =>
     (~ev.prevented /\ ev.called = <<>>)

\* C26 Manual trigger key: a keydown of Ctrl+Space given to handleKeyEvent
\* of an enabled EmailCopilotKeybinds calls the trigger callback exactly
\* once, a suggestion visible or not.
CtrlSpaceTriggers ==
  (/\ ev.op = "keyEvent" /\ ev.flag
   /\ ev.event.key = <<" ">> /\ ev.event.ctrlKey
   /\ ~ev.event.altKey /\ ~ev.event.shiftKey /\ ~ev.event.metaKey)
    => (ev.manager = <<"trigger">> /\ ev.inline = <<"trigger">>)

\* C27 Only usable successes are cached: every cache entry is a result with
\* success = true and a non-empty suggestion; a rate-limited call, a
\* cancelled request, a provider error and an empty response each give a
\* failure result and leave the cache as it was.
OnlyUsableCached ==
  /\ \A i \in 1..Len(cache) :
        cache[i].result.success /\ cache[i].result.suggestion # <<>>
  /\ (ev.op = "getSuggestion" /\ ev.flag) =>
        (ev.ret = Failure("Rate limited") /\ ~ev.stored)
  /\ (/\ ev.op = "response"
      /\ \/ ev.cancelled
         \/ ~ev.resp.success
         \/ sanitizeText(ev.resp.suggestion) = <<>>) =>
        (~ev.ret.success /\ ev.ret.suggestion = <<>> /\ ~ev.flag)
  /\ (ev.op = "reject") => (~ev.ret.success /\ ~ev.flag)

OnlyUsableWitness ==
  /\ ev.op = "response" /\ ev.ret = Failure("Empty suggestion")
  /\ ev.resp.success /\ cache # <<>>

\* C28 Debounce: when the function debounce(func, wait) returns is called
\* several times less than wait apart, func runs once for them, not before
\* wait has passed since the last call and with the last call's arguments;
\* until it runs, the run is due wait after the last call.
DebounceOnce ==
  /\ ev.runs <= 1
  /\ (ev.at > 0 /\ ev.runs = 0) =>
        ui.debounceTimeout = Timer(ev.at + DebounceWait, ev.args)
  /\ (ev.op = "later") =>
        /\ ev.text = ev.args
        /\ now >= ev.at + DebounceWait
        /\ ev.runs = 1
  /\ (ev.runs = 1) => ~ui.debounceTimeout.on

DebounceWitness ==
  /\ ev.op = "later" /\ ev.runs = 1
  /\ ev.prev > 0 /\ ev.prev < ev.at /\ ev.at - ev.prev < DebounceWait
  /\ now = ev.at + DebounceWait

\* C29 Sanitized before cached or shown: the suggestion text of a result the
\* engine caches has no white space at its start or end, no two white-space
\* characters in a row, and at most SuggestionCap characters.
SanitizedBeforeCached ==
  (ev.op = "sanitize" /\ ev.stored) =>
     LET s == ev.ret.suggestion IN
     /\ s[1] \notin WS /\ s[Len(s)] \notin WS
     /\ \A i \in 1..(Len(s) - 1) : ~(s[i] \in WS /\ s[i + 1] \in WS)
     /\ Len(s) <= SuggestionCap

\* C30 One response per completion message: handleGetAICompletion calls
\* sendResponse once per get_ai_completion message, never twice, when its
\* last task is done, with a success carrying a suggestion or a failure
\* carrying an error; a message still waiting for the settings or the
\* provider has had no response yet.
OneResponsePerMessage ==
  \A i \in 1..Len(reqs) :
    /\ reqs[i].responses <= 1
    /\ reqs[i].stage \in {"msg", "fetch"} => reqs[i].responses = 0
    /\ reqs[i].stage = "reply" =>
         /\ reqs[i].responses = 1
         /\ \/ reqs[i].resp.success /\ reqs[i].resp.error = ""
            \/ /\ ~reqs[i].resp.success /\ reqs[i].resp.suggestion = <<>>
               /\ reqs[i].resp.error \in
                    {"Extension is disabled", "API key not configured",
                     "Unsupported AI provider", "Failed to fetch",
                     "Gemini API error: HTTP 500",
                     "Request timeout - check your internet connection",
                     "Invalid response from Gemini API"}

OneResponseWitness ==
  /\ ev.op = "bgFetch"
  /\ reqs[ev.req].resp = Failure("Request timeout - check your internet connection")
  /\ reqs[ev.req].responses = 1
  /\ \E j \in 1..Len(reqs) :
       reqs[j].stage = "reply" /\ reqs[j].resp = Failure("Unsupported AI provider")

\* A sequence of callbacks that alternates, the first being a detection.
Alternates(trace) ==
  \A i \in 1..Len(trace) :
    trace[i] = IF i % 2 = 1 THEN "detected" ELSE "removed"

\* C31 Detected/removed alternation: the callbacks GmailObserver makes for
\* an element alternate, the first being onComposeDetected, and
\* observedElements holds exactly the elements whose last callback was
\* onComposeDetected.
DetectedRemovedAlternate ==
  \A el \in Elements :
    LET trace == ui.observer.trace[el] IN
    /\ Alternates(trace)
    /\ el \in ui.observer.observedElements <=>
         (trace # <<>> /\ trace[Len(trace)] = "detected")

AlternateWitness ==
  /\ ev.op = "mutation" /\ ev.pressed = "added" /\ ev.flag
  /\ \E el \in Elements :
       /\ Len(ui.observer.trace[el]) = 3
       /\ el \in ui.observer.observedElements

\* C32 Listener cleanup on detach: an event on an element that is not
\* attached (never attached, or detached since) calls no handler of the
\* controller, and an event on an attached element calls its handler
\* exactly once, however often the element was attached and detached before.
ListenerCleanup ==
  (ev.op = "event") => (ev.count = IF ev.flag THEN 1 ELSE 0)

\* C38 Controller state consistency: after every task of EmailCopilotContent
\* the keybind manager's suggestionVisible, currentSuggestion being non-null
\* and the renderer holding a ghost element are all true or all false, and
\* Tab inserts a suggestion only while the renderer holds its ghost.
ControllerConsistent ==
  /\ ui.controller.suggestionVisible <=> (ui.controller.currentSuggestion # <<>>)
  /\ (ui.controller.currentSuggestion # <<>>) <=> ui.controller.ghostElement
  /\ (ev.op = "key" /\ ev.pressed = "Tab" /\ ev.count > 0) => ev.held

\* C39 Disabled means no ghost: while isEnabled is false the controller has
\* no suggestion: none current, none marked visible, no ghost element held.
DisabledNoGhost ==
  ~ui.controller.isEnabled =>
     /\ ui.controller.currentSuggestion = <<>>
     /\ ~ui.controller.suggestionVisible
     /\ ~ui.controller.ghostElement /\ ~ui.controller.isVisible

\* C33 Single injection: a Gmail page never has more than one EmailCopilot
\* made or about to be made, however many injectContentScript runs
\* interleave and however often the content script is run in the page.
SingleInjection ==
  ui.inject.instances + ui.inject.timers <= 1

SingleInjectionWitness ==
  /\ ev.op \in {"injectFile", "contentScript"} /\ ev.flag
  /\ ui.inject.instances = 1
  /\ \E i, j \in 1..Len(ui.inject.runs) :
       i # j /\ ui.inject.runs[i] = "done" /\ ui.inject.runs[j] = "done"

\* C34 Processing flag is released: isProcessing is true only while a
\* request of the input processor is awaiting its response, and it is false
\* after every task in which a request settled or makeApiCall ran without
\* sending one.
ProcessingReleased ==
  /\ ui.isProcessing => InFlight
  /\ (ev.op \in {"response", "reject"}) => ~ui.isProcessing
  /\ (ev.op \in {"makeApiCall", "manual"} /\ ~ev.sent /\ ~ev.busy) => ~ui.isProcessing

\* C35 In-flight table integrity: activeRequests holds an entry for a key
\* exactly while a request for that key that was not cancelled is awaiting
\* its response, and the entry is that request.
InFlightTableIntact ==
  /\ \A i \in 1..Len(reqs) :
        (reqs[i].stage # "done" /\ ~reqs[i].cancelled)
          => (Has(activeRequests, reqs[i].key) /\ activeRequests[reqs[i].key] = i)
  /\ \A k \in DOMAIN activeRequests :
        LET i == activeRequests[k] IN
        i \in 1..Len(reqs) /\ reqs[i].stage # "done" /\ ~reqs[i].cancelled /\ reqs[i].key = k

\* C36 No request for superseded text: a request that makeApiCall sends from
\* the debounce timer is for the text before the cursor at that moment, and
\* after every input event a timer that is still set carries the text of
\* that event.
NoSupersededRequest ==
  /\ (ev.op = "makeApiCall" /\ ev.sent) => (ev.text = ev.live)
  /\ (ev.op = "input") =>
        /\ ui.processingTimeout.on => (ui.processingTimeout.text = ev.text)
        /\ ui.debounceTimeout.on => (ui.debounceTimeout.text = ev.text)

\* C37 Suggestion lands on its own surface: when the result of a request is
\* rendered, the ghost is put in the surface that the request was issued on.
OwnSurface ==
  (ev.op \in {"response", "reject", "makeApiCall", "manual"} /\ ev.shown) =>
     (ui.targetElement = ev.el)

\* C40 No lost usage updates: once every track_usage message received has
\* been handled to the end, the stored totalSuggestions is the number of
\* messages, and acceptedSuggestions and rejectedSuggestions are the numbers
\* of messages with action accept and reject.
NoLostUsage ==
  LET handlers == ui.tracking.handlers
      stored == IF ui.tracking.usageStats = <<>> THEN ZeroStats
                ELSE ui.tracking.usageStats[1]
      Count(a) == Cardinality({i \in 1..Len(handlers) : handlers[i].action = a})
  IN (\A i \in 1..Len(handlers) : handlers[i].stage = "done") =>
       /\ stored.totalSuggestions = Len(handlers)
       /\ stored.acceptedSuggestions = Count("accept")
       /\ stored.rejectedSuggestions = Count("reject")

====
